---- MODULE Spec2Model ----
(***************************************************************************)
(* State-machine model of the speaktome browser audio client:             *)
(*   WebSocketClient  (client/js/audio/websocket_client.js)               *)
(*   AudioRecorder    (client/js/audio/audio_recorder.js)                 *)
(*   FileUploader     (client/js/audio/file_uploader.js)                  *)
(*   AudioClientV2    (the composed client that wires the three together) *)
(* Every event handler runs to completion on the single event-loop        *)
(* thread, so each handler is one atomic action; an `await` splits a      *)
(* method into one action per resumption.                                 *)
(***************************************************************************)
EXTENDS Integers, Sequences, FiniteSets, Bags, TLC

(* ------------------------------ bounds --------------------------------- *)
\* WebSocket objects that may be alive (not yet closed-and-forgotten) at once
MaxSockets == 2
\* reconnect setTimeout callbacks that may be pending at once
MaxTimers == 1
\* failed connection attempts counted per streak
MaxStreak == 6
\* MediaRecorder objects alive at once
MaxRecordings == 2
\* startRecording calls suspended at an await at once
MaxCalls == 2
\* timeslice flushes per recording (the final flush at stop comes on top)
MaxChunks == 1
\* blobToBase64 conversions in flight at once
MaxTasks == 2
\* Audio messages recorded on the wire in an observed run
MaxWire == 3
\* the largest maxAttempts option a pollForResult call is given
MaxAttempts == 3
\* the MediaStreams left open at a time, and the sampling loops alive
MaxStreams == 2
\* callbacks registered for one event name at a time
MaxListeners == 3

(* ------------------- WebSocketClient.connectionSettings ---------------- *)
reconnectAttempts == 5
reconnectDelay == 1000
reconnectBackoff == 2

(* ------------------------------ state ---------------------------------- *)
VARIABLES
    websocket,        \* WebSocketClient.websocket: 0 (null) or a socket id
    sock,             \* the WebSocket objects created so far: id -> record
    isConnected,      \* WebSocketClient.isConnected
    currentAttempt,   \* WebSocketClient.currentAttempt
    keepAliveTimer,   \* WebSocketClient.keepAliveTimer is set (an interval runs)
    timers,           \* pending reconnect setTimeouts: bag of [attempt, delay]
    lastReconnecting, \* payload of the latest `reconnecting` event
    lastSend,         \* outcome of the latest WebSocketClient.send call
    callerIntent,     \* latest of connect()/disconnect() the caller invoked
    failStreak,       \* failed connection attempts since the last open event
    acConnected,      \* AudioClientV2.isConnected
    mediaRecorder,    \* AudioRecorder.mediaRecorder: 0 (null) or an encoder id
    audioStream,      \* AudioRecorder.audioStream is set (device acquired)
    isRecording,      \* AudioRecorder.isRecording
    recordedChunks,   \* AudioRecorder.recordedChunks: sequence of chunks
    enc,              \* the live MediaRecorder objects: id -> record
    calls,            \* startRecording calls suspended at an await: bag
    settings,         \* AudioClientV2.settings
    acRecording,      \* AudioClientV2.isRecording
    tasks,            \* handleStreamingAudio calls awaiting blobToBase64: bag
    mimeType,         \* the type AudioRecorder.getSupportedMimeType returns
    batchOutcome,     \* what became of the latest handleBatchRecording call
    wire,             \* the Audio messages handed to an open socket, oldest first
    lastConfig,       \* the latest Config message handed to an open socket
    up,               \* the latest FileUploader.uploadAndWaitForResult call
    emitted,          \* the event the latest handleStreamingAudio call emitted
    stored,           \* localStorage 'whisper-settings': << >> or <<the JSON text>>
    applied,          \* the latest updateSettings call: << >> or <<its record>>
    heard,            \* the events the latest socket event made WebSocketClient emit
    dev,              \* AudioRecorder's capture device and level sampling
    em,               \* an event emitter of Utils.createEventEmitter, and the
                      \* calls of listeners its latest operation made
    probe,            \* the runtime's MediaRecorder.isTypeSupported, and what
                      \* getSupportedMimeType / getFormatFromMimeType returned
    maxFileSize,      \* FileUploader.uploadSettings.maxFileSize
    endpoint,         \* the endpoint each WebSocket was created for
    legacy,           \* the legacy AudioClient (audio-client.js)
    tts               \* the TTSClient

wsVars == <<websocket, sock, isConnected, currentAttempt, keepAliveTimer,
            timers, lastReconnecting, callerIntent, acConnected>>

recVars == <<mediaRecorder, audioStream, isRecording, recordedChunks, enc,
             calls, settings, acRecording, tasks, mimeType, batchOutcome, stored>>

vars == <<websocket, sock, isConnected, currentAttempt, keepAliveTimer,
          timers, lastReconnecting, lastSend, callerIntent,
          failStreak, acConnected, mediaRecorder, audioStream, isRecording,
          recordedChunks, enc, calls, settings, acRecording, tasks, mimeType,
          batchOutcome, wire, lastConfig, up, emitted, stored, applied, heard,
          dev, em, probe, maxFileSize, endpoint, legacy, tts>>

\* the state of what stands beside AudioClientV2's session
extVars == <<probe, maxFileSize, endpoint, legacy, tts>>

\* what only the observed runs record
obsVars == <<wire, lastConfig, up, emitted, applied, heard, dev, em, extVars>>

\* what the steps that record messages leave alone
offWire == <<up, emitted, applied, heard, dev, em, extVars>>

SockIds == 1..MaxSockets

\* A slot no live WebSocket object occupies.
NoSocket == [rs |-> "NONE", est |-> FALSE]

\* A WebSocket object: readyState, and whether the connection was ever
\* established (decides the code of the close event after close()).
NewSocket == [rs |-> "CONNECTING", est |-> FALSE]

\* Failed connection attempts since the last open event, by who called
\* connect(): the caller or a reconnect timer (counting stops at MaxStreak);
\* `first` is the socket the caller's connect() created, while it connects.
NoFailures == [caller |-> 0, auto |-> 0, first |-> 0]

CountFailure(f, s) ==
    IF s = f.first
        THEN [f EXCEPT !.caller = IF @ < MaxStreak THEN @ + 1 ELSE @, !.first = 0]
        ELSE [f EXCEPT !.auto = IF @ < MaxStreak THEN @ + 1 ELSE @]

NoSend == [type |-> "none", code |-> "none", wire |-> FALSE]

(* --------------------------- platform WebSocket ------------------------ *)
\* Closed sockets that the client no longer references are forgotten.
Reap(socks, cur) ==
    [i \in SockIds |-> IF socks[i].rs = "CLOSED" /\ i # cur THEN NoSocket ELSE socks[i]]

\* WebSocket.close(): CONNECTING and OPEN go to CLOSING; otherwise a no-op.
close(s) ==
    IF s.rs \in {"CONNECTING", "OPEN"} THEN [s EXCEPT !.rs = "CLOSING"] ELSE s

\* Codes the close event may carry once close() was called: the handshake of an
\* established connection completes (1000) or is cut (1006); a connection that
\* was never established is failed (1006).
CloseCodes(s) == IF s.est THEN {1000, 1006} ELSE {1006}

FreeIds == {i \in SockIds : sock[i].rs = "NONE"}

NewSocketId == CHOOSE i \in FreeIds : \A j \in FreeIds : i <= j

RECURSIVE Pow(_, _)
Pow(b, e) == IF e = 0 THEN 1 ELSE b * Pow(b, e - 1)

(* ------------------------------ WebSocketClient ------------------------ *)
SendFailedOnConnecting(rs) == rs = "CONNECTING"

\* code returned by send(message) for a client in the given state
SendCode(conn, ws, socks) ==
    IF ~conn \/ ws = 0 THEN "NOT_CONNECTED"
    ELSE IF SendFailedOnConnecting(socks[ws].rs) THEN "SEND_FAILED"
    ELSE "success"

\* send(message): the outcome, and whether a frame went out on the wire
\* (WebSocket.send throws while CONNECTING and discards the data once the
\* socket is CLOSING or CLOSED).
send(type, conn, ws, socks) ==
    [type |-> type,
     code |-> SendCode(conn, ws, socks),
     wire |-> SendCode(conn, ws, socks) = "success" /\ socks[ws].rs = "OPEN"]

\* (mutant) the retry budget is compared inclusively
shouldReconnectInclusive == currentAttempt <= reconnectAttempts

shouldReconnect == currentAttempt < reconnectAttempts

\* (mutant) the exponent is the attempt number itself
ReconnectDelayLate(attempt) == reconnectDelay * Pow(reconnectBackoff, attempt)

ReconnectDelayFor(attempt) == reconnectDelay * Pow(reconnectBackoff, attempt - 1)

scheduleReconnect ==
    /\ currentAttempt' = currentAttempt + 1
    /\ lastReconnecting' = [attempt |-> currentAttempt + 1,
                            delay |-> ReconnectDelayFor(currentAttempt + 1)]
    /\ timers' = timers (+) SetToBag({[attempt |-> currentAttempt + 1,
                                        delay |-> ReconnectDelayFor(currentAttempt + 1)]})

\* connect(): a new WebSocket replaces this.websocket, handlers are attached.
connect ==
    /\ FreeIds # {}
    /\ websocket' = NewSocketId
    /\ sock' = Reap([sock EXCEPT ![NewSocketId] = NewSocket], NewSocketId)

\* (mutant) the open handler leaves the attempt counter alone
KeepAttemptOnOpen == currentAttempt

\* the value onopen assigns to currentAttempt
ResetAttemptOnOpen == 0

\* websocket.onopen, with AudioClientV2's `connected` listener (sendConfig).
onopen ==
    /\ isConnected' = TRUE
    /\ currentAttempt' = ResetAttemptOnOpen
    /\ acConnected' = TRUE
    /\ lastSend' = send("config", TRUE, websocket, sock')
    /\ keepAliveTimer' = TRUE

\* websocket.onclose, with AudioClientV2's `disconnected` listener.
onclose(code) ==
    /\ isConnected' = FALSE
    /\ keepAliveTimer' = FALSE
    /\ acConnected' = FALSE
    /\ IF code # 1000 /\ shouldReconnect
          THEN scheduleReconnect
          ELSE UNCHANGED <<currentAttempt, lastReconnecting, timers>>

\* the close event would schedule a reconnect timer and there is room for it
TimerRoom(code) ==
    (code # 1000 /\ shouldReconnect) => BagCardinality(timers) < MaxTimers

\* disconnect(), but for its stopKeepAlive(): the current socket is closed and
\* forgotten, and the flag cleared.
closeCurrent ==
    /\ IF websocket # 0
          THEN /\ sock' = Reap([sock EXCEPT ![websocket] = close(@)], 0)
               /\ websocket' = 0
          ELSE UNCHANGED <<sock, websocket>>
    /\ isConnected' = FALSE

\* disconnect(): the keep-alive is stopped only when a socket is held
disconnect ==
    /\ closeCurrent
    /\ keepAliveTimer' = IF websocket # 0 THEN FALSE ELSE keepAliveTimer

\* cleanup(): disconnect(); stopKeepAlive(); currentAttempt = 0
cleanup ==
    /\ closeCurrent
    /\ keepAliveTimer' = FALSE
    /\ currentAttempt' = 0

(* ------------------------------ AudioRecorder -------------------------- *)
EncIds == 1..MaxRecordings

\* A slot no live MediaRecorder object occupies.
NoEncoder == [st |-> "none", ts |-> FALSE, seq |-> 0]

\* A MediaRecorder after start(timeslice): ts says a timeslice was given, seq
\* counts the non-empty dataavailable events it has delivered.
NewEncoder(ts, started) ==
    [st |-> IF started THEN "recording" ELSE "inactive", ts |-> ts, seq |-> 0]

\* An inactive MediaRecorder the recorder no longer refers to is garbage.
ReapEnc(encs, cur) ==
    [e \in EncIds |-> IF encs[e].st = "inactive" /\ e # cur THEN NoEncoder
                                                             ELSE encs[e]]

\* ids no live encoder, buffered chunk, pending conversion or recorded
\* message bears
FreeEncs ==
    {e \in EncIds : /\ enc[e].st = "none"
                    /\ \A i \in DOMAIN recordedChunks : recordedChunks[i].rec # e
                    /\ \A t \in BagToSet(tasks) :
                          t.rec # e /\ \A k \in DOMAIN t.blob : t.blob[k].rec # e
                    /\ \A i \in DOMAIN wire :
                          \A k \in DOMAIN wire[i].blob : wire[i].blob[k].rec # e}

NewEncId == CHOOSE e \in FreeEncs : \A f \in FreeEncs : e <= f

\* no Config message has been transmitted yet
NoConfig == [sock |-> 0, model |-> "none", language |-> "none"]

\* AudioClientV2 constructor: this.settings (language null is written "null")
DefaultSettings == [model |-> "base", language |-> "null",
                    recordingMode |-> "streaming", autoSend |-> TRUE]

\* AudioRecorder.getSupportedMimeType: the preference list
MimeTypes == <<"audio/webm;codecs=opus", "audio/webm", "audio/ogg;codecs=opus",
               "audio/ogg", "audio/wav", "audio/mp4">>

\* Utils.validateAudioFile: the format allow-list
supportedTypes == {"audio/wav", "audio/wave", "audio/x-wav", "audio/mpeg",
                   "audio/mp3", "audio/flac", "audio/m4a", "audio/x-m4a",
                   "audio/webm", "audio/ogg"}

\* Utils.validateAudioFile for a file of the given type, within the size limit
validateAudioFile(type) == type \in supportedTypes

\* Utils.validateAudioFile: the size ceiling, in bytes
maxSize == 50 * 1024 * 1024

\* FileUploader constructor: this.uploadSettings
uploadSettings ==
    [maxFileSize |-> 50 * 1024 * 1024,
     supportedFormats |-> {"audio/wav", "audio/wave", "audio/x-wav", "audio/mpeg",
                           "audio/mp3", "audio/flac", "audio/m4a", "audio/x-m4a",
                           "audio/webm", "audio/ogg"},
     endpoint |-> "/api/transcribe"]

\* (mutant) the size of the file is not looked at
validateFileTypeOnly(file) ==
    file.present /\ validateAudioFile(file.type)

\* FileUploader.validateFile -> Utils.validateAudioFile(file)
validateFile(file) ==
    file.present /\ file.size <= maxSize /\ validateAudioFile(file.type)

\* a file argument: absent (null), or a File of some size and type
NoFile == [present |-> FALSE, size |-> 0, type |-> "none"]

File(size, type) == [present |-> TRUE, size |-> size, type |-> type]

\* FileUploader.pollForResult: options.maxAttempts || 60
defaultMaxAttempts == 60

\* no FileUploader call has been made
NoUpload == [phase |-> "idle", file |-> NoFile, wait |-> FALSE, maxAttempts |-> 0,
             attempts |-> 0, posts |-> 0, promise |-> "none", events |-> << >>]

\* AudioRecorder.getRecordingBlob: the type of the blob built from the chunks
BlobType(mr) == IF mr # 0 THEN mimeType ELSE "audio/webm"

\* AudioRecorder.stopRecording: the encoder is told to stop (stop() throws on
\* an encoder that is not recording; the flag is cleared either way)
StopRequested ==
    IF isRecording /\ mediaRecorder # 0 /\ enc[mediaRecorder].st = "recording"
        THEN [enc EXCEPT ![mediaRecorder].st = "stopping"]
        ELSE enc

stopRecording ==
    /\ enc' = StopRequested
    /\ isRecording' = IF isRecording /\ mediaRecorder # 0 THEN FALSE ELSE isRecording

\* AudioRecorder.cleanup
recorderCleanup ==
    /\ isRecording' = IF isRecording /\ mediaRecorder # 0 THEN FALSE ELSE isRecording
    /\ enc' = ReapEnc(StopRequested, 0)
    /\ audioStream' = FALSE
    /\ recordedChunks' = << >>
    /\ mediaRecorder' = 0

\* the guard of startRecording lets the call through
StartGuardPasses == ~isRecording

\* the rest of startRecording once no await is left: a MediaRecorder is
\* created and started (started = FALSE: start() throws)
beginRecording(ts, started) ==
    /\ FreeEncs # {}
    /\ mediaRecorder' = NewEncId
    /\ recordedChunks' = << >>
    /\ enc' = ReapEnc([enc EXCEPT ![NewEncId] = NewEncoder(ts, started)], NewEncId)
    /\ IF started
          THEN isRecording' = TRUE /\ acRecording' = TRUE
          ELSE UNCHANGED <<isRecording, acRecording>>

\* A handleStreamingAudio call suspended at await blobToBase64: the blob it was
\* given (the chunks it is made of, and its type), for the chunk n of encoder
\* e ("chunk") or for the recording that ended with encoder e's stop ("batch")
Conversion(kind, e, n, blob, type) ==
    [kind |-> kind, rec |-> e, seq |-> n, blob |-> blob, type |-> type]

\* AudioClientV2.handleStreamingAudio up to its await: a conversion starts
handleStreamingAudio(kind, e, n) ==
    tasks' = tasks (+) SetToBag({Conversion(kind, e, n, <<[rec |-> e, seq |-> n]>>,
                                            mimeType)})

\* mediaRecorder.ondataavailable with non-empty data, and AudioClientV2's
\* `audioData` listener: the chunks after the push, and the streaming dispatch
PushChunk(e) == Append(recordedChunks, [rec |-> e, seq |-> enc[e].seq + 1])

\* (mutant) chunks are streamed only while the recorder is recording
StreamsWhileRecording ==
    settings.recordingMode = "streaming" /\ settings.autoSend /\ isRecording

Streams == settings.recordingMode = "streaming" /\ settings.autoSend

\* the `recordingStopped` listener and AudioClientV2.handleBatchRecording,
\* given the chunks the recorder holds: what becomes of the recording
\* ("pending": handed to handleStreamingAudio; "uploaded": an upload request
\* is made; "rejected": the file fails validation; "none": no batch dispatch)
BatchDispatch(chunks) ==
    IF settings.recordingMode # "batch" \/ Len(chunks) = 0 THEN "none"
    ELSE IF acConnected THEN "pending"
    ELSE IF validateAudioFile(BlobType(mediaRecorder)) THEN "uploaded"
    ELSE "rejected"

(* ------------------------------- actions ------------------------------- *)
\* the caller invokes AudioClientV2.connect -> WebSocketClient.connect
Connect ==
    /\ connect
    /\ callerIntent' = "connect"
    /\ UNCHANGED <<isConnected, currentAttempt, keepAliveTimer, timers,
                   lastReconnecting, lastSend, acConnected>>
    /\ UNCHANGED recVars

\* the caller invokes AudioClientV2.disconnect: stopRecording, then
\* WebSocketClient.disconnect
Disconnect ==
    /\ stopRecording
    /\ disconnect
    /\ callerIntent' = "disconnect"
    /\ UNCHANGED <<currentAttempt, timers, lastReconnecting, lastSend, acConnected,
                   mediaRecorder, audioStream, recordedChunks, calls,
                   settings, acRecording, tasks, mimeType, stored, batchOutcome>>

\* the caller invokes AudioClientV2.cleanup: AudioRecorder.cleanup, then
\* WebSocketClient.cleanup, then both flags are cleared
Cleanup ==
    /\ recorderCleanup
    /\ cleanup
    /\ acRecording' = FALSE
    /\ acConnected' = FALSE
    /\ callerIntent' = "disconnect"
    /\ UNCHANGED <<timers, lastReconnecting, lastSend, calls, settings,
                   tasks, mimeType, stored, batchOutcome>>

\* the caller invokes WebSocketClient.send / sendAudio / sendConfig
Send(type) ==
    /\ lastSend' = send(type, isConnected, websocket, sock)
    /\ UNCHANGED <<websocket, sock, isConnected, currentAttempt, keepAliveTimer,
                   timers, lastReconnecting, callerIntent, acConnected>>
    /\ UNCHANGED recVars

\* the connection of socket s is established: its open event is delivered
SocketOpens(s) ==
    /\ sock[s].rs = "CONNECTING"
    /\ sock' = [sock EXCEPT ![s].rs = "OPEN", ![s].est = TRUE]
    /\ onopen
    /\ UNCHANGED <<websocket, timers, lastReconnecting, callerIntent>>
    /\ UNCHANGED recVars

\* the connection attempt of socket s fails: error event, then close event 1006
SocketFails(s) ==
    /\ sock[s].rs = "CONNECTING"
    /\ TimerRoom(1006)
    /\ sock' = Reap([sock EXCEPT ![s].rs = "CLOSED"], websocket)
    /\ onclose(1006)
    /\ UNCHANGED <<websocket, lastSend, callerIntent>>
    /\ UNCHANGED recVars

\* the server or the network closes the open socket s
SocketDrops(s, code) ==
    /\ sock[s].rs = "OPEN"
    /\ TimerRoom(code)
    /\ sock' = Reap([sock EXCEPT ![s].rs = "CLOSED"], websocket)
    /\ onclose(code)
    /\ UNCHANGED <<websocket, lastSend, callerIntent>>
    /\ UNCHANGED recVars

\* the close event of a socket the client closed itself is delivered
CloseCompletes(s, code) ==
    /\ sock[s].rs = "CLOSING"
    /\ code \in CloseCodes(sock[s])
    /\ TimerRoom(code)
    /\ sock' = Reap([sock EXCEPT ![s].rs = "CLOSED"], websocket)
    /\ onclose(code)
    /\ UNCHANGED <<websocket, lastSend, callerIntent>>
    /\ UNCHANGED recVars

\* a reconnect timer set by scheduleReconnect fires
ReconnectTimer(t) ==
    /\ BagIn(t, timers)
    /\ timers' = timers (-) SetToBag({t})
    /\ IF ~isConnected THEN connect ELSE UNCHANGED <<websocket, sock>>
    /\ UNCHANGED <<isConnected, currentAttempt, keepAliveTimer, lastReconnecting,
                   lastSend, callerIntent, acConnected>>
    /\ UNCHANGED recVars

\* (mutant) the keep-alive interval gives the connection up when the ping
\* before it was left without a pong
KeepAliveTickPongTimeout ==
    /\ keepAliveTimer
    /\ isConnected
    /\ lastSend' = send("ping", isConnected, websocket, sock)
    /\ isConnected' = (lastSend.type # "ping")
    /\ UNCHANGED <<websocket, sock, currentAttempt, keepAliveTimer,
                   timers, lastReconnecting, callerIntent, acConnected>>
    /\ UNCHANGED recVars

\* the keep-alive interval fires
KeepAliveTick ==
    /\ keepAliveTimer
    /\ isConnected
    /\ lastSend' = send("ping", isConnected, websocket, sock)
    /\ UNCHANGED <<websocket, sock, isConnected, currentAttempt, keepAliveTimer,
                   timers, lastReconnecting, callerIntent, acConnected>>
    /\ UNCHANGED recVars

\* a suspended startRecording call: where it waits, and the timeslice option
\* AudioClientV2.startRecording computed for it
Call(pc, ts) == [pc |-> pc, ts |-> ts]

\* what can become of the tail of startRecording: "started", start() throws
\* ("startThrows"), or resume() / the MediaRecorder constructor throws ("fails")
StartOutcomes == {"started", "startThrows", "fails"}

\* the tail of startRecording, from the resume of the audio context on
finishStart(ts, out) ==
    IF out = "fails" \/ ~audioStream
        THEN UNCHANGED <<mediaRecorder, recordedChunks, enc, isRecording, acRecording>>
        ELSE beginRecording(ts, out = "started")

\* the caller invokes AudioClientV2.startRecording -> AudioRecorder.startRecording:
\* the call runs up to its first await, or to its end when there is none
StartRecording(suspended, out) ==
    /\ acConnected
    /\ StartGuardPasses
    /\ LET ts == settings.recordingMode = "streaming" IN
       IF ~audioStream \/ suspended
          THEN /\ BagCardinality(calls) < MaxCalls
               /\ calls' = calls (+) SetToBag({Call(IF audioStream THEN "resume"
                                                    ELSE "permission", ts)})
               /\ UNCHANGED <<mediaRecorder, recordedChunks, enc, isRecording,
                              acRecording>>
          ELSE /\ finishStart(ts, out)
               /\ UNCHANGED calls
    /\ UNCHANGED <<audioStream, settings, tasks, mimeType, stored, lastSend, failStreak, batchOutcome>>
    /\ UNCHANGED wsVars

\* Utils.requestMicrophonePermission settles for the suspended call c
PermissionSettles(c, granted) ==
    /\ BagIn(c, calls)
    /\ c.pc = "permission"
    /\ calls' = IF granted
                   THEN (calls (-) SetToBag({c})) (+) SetToBag({Call("stream", c.ts)})
                   ELSE calls (-) SetToBag({c})
    /\ UNCHANGED <<mediaRecorder, audioStream, isRecording, recordedChunks, enc,
                   settings, acRecording, tasks, mimeType, stored, lastSend, failStreak, batchOutcome>>
    /\ UNCHANGED wsVars

\* getUserMedia settles for the suspended call c; with the stream acquired
\* the call goes on to the resume of the audio context or to its end
StreamSettles(c, ok, suspended, out) ==
    /\ BagIn(c, calls)
    /\ c.pc = "stream"
    /\ IF ~ok
          THEN /\ calls' = calls (-) SetToBag({c})
               /\ UNCHANGED <<audioStream, mediaRecorder, recordedChunks, enc,
                              isRecording, acRecording>>
          ELSE /\ audioStream' = TRUE
               /\ IF suspended
                     THEN /\ calls' = (calls (-) SetToBag({c}))
                                         (+) SetToBag({Call("resume", c.ts)})
                          /\ UNCHANGED <<mediaRecorder, recordedChunks, enc,
                                         isRecording, acRecording>>
                     ELSE /\ calls' = calls (-) SetToBag({c})
                          /\ IF out = "fails"
                                THEN UNCHANGED <<mediaRecorder, recordedChunks, enc,
                                                 isRecording, acRecording>>
                                ELSE beginRecording(c.ts, out = "started")
    /\ UNCHANGED <<settings, tasks, mimeType, stored, lastSend, failStreak, batchOutcome>>
    /\ UNCHANGED wsVars

\* audioContext.resume settles for the suspended call c
ResumeSettles(c, out) ==
    /\ BagIn(c, calls)
    /\ c.pc = "resume"
    /\ calls' = calls (-) SetToBag({c})
    /\ finishStart(c.ts, out)
    /\ UNCHANGED <<audioStream, settings, tasks, mimeType, stored, lastSend, failStreak, batchOutcome>>
    /\ UNCHANGED wsVars

\* the caller invokes AudioClientV2.stopRecording -> AudioRecorder.stopRecording
StopRecording ==
    /\ isRecording
    /\ mediaRecorder # 0
    /\ stopRecording
    /\ UNCHANGED <<mediaRecorder, audioStream, recordedChunks, calls, settings,
                   acRecording, tasks, mimeType, stored, lastSend, failStreak, batchOutcome>>
    /\ UNCHANGED wsVars

\* a timeslice of encoder e elapses: dataavailable with data is delivered
Flush(e) ==
    /\ enc[e].st = "recording"
    /\ enc[e].ts
    /\ enc[e].seq < MaxChunks
    /\ recordedChunks' = PushChunk(e)
    /\ enc' = [enc EXCEPT ![e].seq = @ + 1]
    /\ IF Streams
          THEN /\ BagCardinality(tasks) < MaxTasks
               /\ handleStreamingAudio("chunk", e, enc[e].seq + 1)
          ELSE UNCHANGED tasks
    /\ UNCHANGED <<mediaRecorder, audioStream, isRecording, calls, settings,
                   acRecording, mimeType, stored, lastSend, failStreak, batchOutcome>>
    /\ UNCHANGED wsVars

\* encoder e finishes stopping: its last dataavailable (hasData: with data)
\* and its stop event are delivered, and AudioClientV2's `audioData` and
\* `recordingStopped` listeners run
StopEvent(e, hasData) ==
    /\ enc[e].st = "stopping"
    /\ LET chunks == IF hasData THEN PushChunk(e) ELSE recordedChunks
           n      == enc[e].seq + (IF hasData THEN 1 ELSE 0)
           d      == BatchDispatch(chunks)
           stream == IF hasData /\ Streams
                        THEN SetToBag({Conversion("chunk", e, n,
                                                  <<[rec |-> e, seq |-> n]>>, mimeType)})
                        ELSE EmptyBag
           batch  == IF d = "pending"
                        THEN SetToBag({Conversion("batch", e, n, chunks,
                                                  BlobType(mediaRecorder))})
                        ELSE EmptyBag
       IN /\ BagCardinality(tasks (+) stream (+) batch) <= MaxTasks
          /\ recordedChunks' = chunks
          /\ tasks' = tasks (+) stream (+) batch
          /\ enc' = ReapEnc([enc EXCEPT ![e].st = "inactive", ![e].seq = n],
                             mediaRecorder)
          /\ batchOutcome' = IF d = "none" THEN batchOutcome ELSE d
    /\ acRecording' = FALSE
    /\ UNCHANGED <<mediaRecorder, audioStream, isRecording, calls, settings,
                   mimeType, stored, lastSend, failStreak>>
    /\ UNCHANGED wsVars

\* blobToBase64 settles in the handleStreamingAudio call t, which then hands
\* the audio to WebSocketClient.sendAudio (read: the reader succeeded)
EncodeSettles(t, read) ==
    /\ BagIn(t, tasks)
    /\ tasks' = tasks (-) SetToBag({t})
    /\ lastSend' = IF read THEN send("audio", isConnected, websocket, sock)
                           ELSE lastSend
    /\ batchOutcome' = IF t.kind # "batch" THEN batchOutcome
                       ELSE IF ~read THEN "failed"
                       ELSE IF lastSend'.wire THEN "sent" ELSE "dropped"
    /\ UNCHANGED <<mediaRecorder, audioStream, isRecording, recordedChunks, enc,
                   calls, settings, acRecording, mimeType, stored, failStreak>>
    /\ UNCHANGED wsVars

\* the fields of the settings object
Fields == {"model", "language", "recordingMode", "autoSend"}

\* the values a field takes (null is written "null")
FieldValues(f) ==
    IF f = "model" THEN {"base", "small"}
    ELSE IF f = "language" THEN {"null", "en"}
    ELSE IF f = "recordingMode" THEN {"streaming", "batch"}
    ELSE BOOLEAN

\* JSON.stringify of the value v of field f
stringifyField(f, v) ==
    IF f = "autoSend" THEN (IF v THEN "true" ELSE "false")
    ELSE IF v = "null" THEN "null"
    ELSE "\"" \o v \o "\""

\* Utils.storage.set: JSON.stringify(value), field by field
stringify(s) == [f \in DOMAIN s |-> stringifyField(f, s[f])]

\* Utils.storage.get: JSON.parse(item)
parse(text) ==
    [f \in DOMAIN text |-> CHOOSE v \in FieldValues(f) : stringifyField(f, v) = text[f]]

\* (mutant) { ...b, ...a }: the current fields win
SpreadUnder(a, b) ==
    [f \in DOMAIN a \cup DOMAIN b |-> IF f \in DOMAIN a THEN a[f] ELSE b[f]]

\* { ...a, ...b }
Spread(a, b) ==
    [f \in DOMAIN a \cup DOMAIN b |-> IF f \in DOMAIN b THEN b[f] ELSE a[f]]

\* AudioClientV2.updateSettings(newSettings) for an update without a
\* maxFileSize field, over a localStorage that takes the write
updateSettings(newSettings) ==
    /\ settings' = Spread(settings, newSettings)
    /\ stored' = <<stringify(settings')>>
    /\ lastSend' = IF acConnected THEN send("config", isConnected, websocket, sock)
                                  ELSE lastSend
    /\ UNCHANGED <<mediaRecorder, audioStream, isRecording, recordedChunks, enc,
                   calls, acRecording, tasks, mimeType, failStreak, batchOutcome>>
    /\ UNCHANGED wsVars

\* the caller changes the settings to the value new, and the store takes it
UpdateSettings(new) ==
    /\ new # settings
    /\ updateSettings(new)

\* AudioRecorder constructor: no stream, no analyser, no animation frame;
\* streams counts the MediaStreams of requestMicrophoneAccess whose tracks
\* were not stopped, acquired those obtained since the latest cleanup(),
\* loops the pending animation frames of updateAudioLevel, asking / opening
\* the requestMicrophoneAccess calls the caller made itself and that await
\* the permission / the stream; level flips at every `audioLevel` event;
\* released says cleanup() returned and no call was made since
NoDevice ==
    [streams |-> 0, acquired |-> 0, loops |-> 0, analyser |-> FALSE,
     animationFrame |-> FALSE, asking |-> 0, opening |-> 0, level |-> FALSE,
     released |-> FALSE]

\* Utils.createEventEmitter: events = {} ; no emit was made
NoListeners == [events |-> << >>, called |-> << >>]

\* the runtime has not been asked which recording types it supports
NoProbe == [supported |-> {}, type |-> "none", format |-> "none"]

\* the legacy AudioClient once constructed: init() has called connect(), no
\* recording was made
NoLegacy == [ws |-> "CONNECTING", isConnected |-> FALSE, reconnect |-> FALSE,
             audioStream |-> FALSE, isRecording |-> FALSE, recorder |-> "none",
             recordedChunks |-> << >>, stopped |-> FALSE, encoding |-> << >>,
             sent |-> << >>, errors |-> 0]

\* the TTSClient once constructed: ws = null, no socket was created;
\* `disconnected` tells whether the caller's last call was disconnect()
NoTTS == [ws |-> 0, socks |-> [i \in SockIds |-> "NONE"], isConnected |-> FALSE,
          timers |-> 0, disconnected |-> FALSE]

\* the state once AudioClientV2 and its three modules are constructed
Constructed ==
    /\ websocket = 0
    /\ sock = [i \in SockIds |-> NoSocket]
    /\ isConnected = FALSE
    /\ currentAttempt = 0
    /\ keepAliveTimer = FALSE
    /\ timers = EmptyBag
    /\ lastReconnecting = [attempt |-> 0, delay |-> 0]
    /\ lastSend = NoSend
    /\ callerIntent = "none"
    /\ failStreak = NoFailures
    /\ acConnected = FALSE
    /\ mediaRecorder = 0
    /\ audioStream = FALSE
    /\ isRecording = FALSE
    /\ recordedChunks = << >>
    /\ enc = [e \in EncIds |-> NoEncoder]
    /\ calls = EmptyBag
    /\ settings = DefaultSettings
    /\ acRecording = FALSE
    /\ tasks = EmptyBag
    /\ batchOutcome = "none"
    /\ wire = << >>
    /\ lastConfig = NoConfig
    /\ up = NoUpload
    /\ emitted = "none"
    /\ stored = << >>
    /\ applied = << >>
    /\ heard = << >>
    /\ dev = NoDevice
    /\ em = NoListeners
    /\ probe = NoProbe
    /\ maxFileSize = uploadSettings.maxFileSize
    /\ endpoint = [i \in SockIds |-> "none"]
    /\ legacy = NoLegacy
    /\ tts = NoTTS

Init ==
    /\ Constructed
    /\ mimeType = MimeTypes[1]

\* the step is not part of a counted streak of failed attempts
WsOnly == UNCHANGED <<failStreak, obsVars>>

\* the step is not an observed one
Quiet == UNCHANGED obsVars

\* WebSocketClient driven by its caller, its sockets and its timers
Next ==
    \/ Connect /\ WsOnly
    \/ Disconnect /\ WsOnly
    \/ Cleanup /\ WsOnly
    \/ Send("audio") /\ WsOnly
    \/ \E s \in SockIds : SocketOpens(s) /\ WsOnly
    \/ \E s \in SockIds : SocketFails(s) /\ WsOnly
    \/ \E s \in SockIds, code \in {1000, 1006} : SocketDrops(s, code) /\ WsOnly
    \/ \E s \in SockIds, code \in {1000, 1006} : CloseCompletes(s, code) /\ WsOnly
    \/ \E t \in BagToSet(timers) : ReconnectTimer(t) /\ WsOnly
    \/ KeepAliveTick /\ WsOnly

Spec == Init /\ [][Next]_vars

\* One connect() call, after which the caller only sends: the client is left
\* to its reconnection loop, and the failed attempts of a streak are counted.
ConnectOnce ==
    /\ callerIntent = "none"
    /\ Connect
    /\ failStreak' = [failStreak EXCEPT !.first = websocket']
    /\ Quiet

SendOnly(type) == Send(type) /\ UNCHANGED failStreak /\ Quiet

Opened(s) == SocketOpens(s) /\ failStreak' = NoFailures /\ Quiet

Failed(s) == SocketFails(s) /\ failStreak' = CountFailure(failStreak, s) /\ Quiet

Dropped(s, code) == SocketDrops(s, code) /\ UNCHANGED failStreak /\ Quiet

Retry(t) == ReconnectTimer(t) /\ UNCHANGED failStreak /\ Quiet

Ping == KeepAliveTick /\ UNCHANGED failStreak /\ Quiet

NextRetry ==
    \/ ConnectOnce
    \/ SendOnly("audio")
    \/ \E s \in SockIds : Opened(s)
    \/ \E s \in SockIds : Failed(s)
    \/ \E s \in SockIds, code \in {1000, 1006} : Dropped(s, code)
    \/ \E t \in BagToSet(timers) : Retry(t)
    \/ Ping

SpecRetry == Init /\ [][NextRetry]_vars

\* the endpoints the server offers a WebSocket on
Endpoints == {"/ws/transcribe", "/ws/synthesize"}

\* the default of connect's endpoint parameter
DefaultEndpoint == "/ws/transcribe"

\* what a step of the endpoint-recording client leaves alone
EndpointOnly == UNCHANGED <<wire, lastConfig, up, emitted, applied, heard, dev, em,
                            probe, maxFileSize, legacy, tts>>

\* the caller invokes WebSocketClient.connect(e), once: the socket is opened
\* on Utils.getWebSocketUrl(e)
ConnectTo(e) ==
    /\ callerIntent = "none"
    /\ Connect
    /\ endpoint' = [endpoint EXCEPT ![websocket'] = e]
    /\ UNCHANGED failStreak
    /\ EndpointOnly

\* a reconnect timer fires: `this.connect()`, no argument, so the parameter
\* takes its default
Reconnects(t) ==
    /\ ReconnectTimer(t)
    /\ endpoint' = IF ~isConnected
                   THEN [endpoint EXCEPT ![websocket'] = DefaultEndpoint]
                   ELSE endpoint
    /\ UNCHANGED failStreak
    /\ EndpointOnly

\* WebSocketClient after one connect(endpoint) call, with the endpoint of
\* every socket it opens recorded
NextEndpoint ==
    \/ \E e \in Endpoints : ConnectTo(e)
    \/ \E s \in SockIds : Opened(s)
    \/ \E s \in SockIds : Failed(s)
    \/ \E s \in SockIds, code \in {1000, 1006} : Dropped(s, code)
    \/ \E t \in BagToSet(timers) : Reconnects(t)
    \/ Ping

SpecEndpoint == Init /\ [][NextEndpoint]_vars

SettingsValues == [model : {"base"}, language : {"null"},
                   recordingMode : {"streaming", "batch"}, autoSend : BOOLEAN]

\* The recorder over a connection that stays up: one connect() call that
\* succeeds, then any interleaving of start and stop calls, of the awaits
\* inside startRecording, of the encoders' events and of the conversions.
NextRecorder ==
    \/ ConnectOnce
    \/ \E s \in SockIds : SocketOpens(s) /\ WsOnly
    \/ \E suspended \in BOOLEAN, out \in StartOutcomes :
          StartRecording(suspended, out) /\ Quiet
    \/ \E c \in BagToSet(calls), granted \in BOOLEAN :
          PermissionSettles(c, granted) /\ Quiet
    \/ \E c \in BagToSet(calls), ok, suspended \in BOOLEAN, out \in StartOutcomes :
          StreamSettles(c, ok, suspended, out) /\ Quiet
    \/ \E c \in BagToSet(calls), out \in StartOutcomes : ResumeSettles(c, out) /\ Quiet
    \/ StopRecording /\ Quiet
    \/ \E e \in EncIds : Flush(e) /\ Quiet
    \/ \E e \in EncIds, hasData \in BOOLEAN : StopEvent(e, hasData) /\ Quiet
    \/ \E t \in BagToSet(tasks), read \in BOOLEAN : EncodeSettles(t, read) /\ Quiet
    \/ \E new \in SettingsValues : UpdateSettings(new) /\ Quiet

SpecRecorder == Init /\ [][NextRecorder]_vars

\* The whole client under a caller that connects once, disconnects at most
\* once and starts a recording only when the previous one is over, while the
\* connection comes and goes; on a runtime whose preferred recording type
\* carries a codecs parameter, or on one where it does not.
InitClient ==
    /\ Constructed
    /\ mimeType \in {MimeTypes[1], MimeTypes[2]}

DisconnectOnce ==
    /\ callerIntent = "connect"
    /\ Disconnect
    /\ WsOnly

StartWhenIdle(suspended, out) ==
    /\ calls = EmptyBag
    /\ \A e \in EncIds : enc[e].st \notin {"recording", "stopping"}
    /\ StartRecording(suspended, out)
    /\ Quiet

NextClient ==
    \/ ConnectOnce
    \/ DisconnectOnce
    \/ \E s \in SockIds : SocketOpens(s) /\ WsOnly
    \/ \E s \in SockIds, code \in {1000, 1006} : SocketDrops(s, code) /\ WsOnly
    \/ \E s \in SockIds, code \in {1000, 1006} : CloseCompletes(s, code) /\ WsOnly
    \/ \E t \in BagToSet(timers) : ReconnectTimer(t) /\ WsOnly
    \/ \E suspended \in BOOLEAN, out \in StartOutcomes : StartWhenIdle(suspended, out)
    \/ \E c \in BagToSet(calls), granted \in BOOLEAN :
          PermissionSettles(c, granted) /\ Quiet
    \/ \E c \in BagToSet(calls), ok, suspended \in BOOLEAN, out \in StartOutcomes :
          StreamSettles(c, ok, suspended, out) /\ Quiet
    \/ \E c \in BagToSet(calls), out \in StartOutcomes : ResumeSettles(c, out) /\ Quiet
    \/ StopRecording /\ Quiet
    \/ \E e \in EncIds : Flush(e) /\ Quiet
    \/ \E e \in EncIds, hasData \in BOOLEAN : StopEvent(e, hasData) /\ Quiet
    \/ \E t \in BagToSet(tasks), read \in BOOLEAN : EncodeSettles(t, read) /\ Quiet
    \/ \E new \in SettingsValues : UpdateSettings(new) /\ Quiet

SpecClient == InitClient /\ [][NextClient]_vars

(* --------------------------- the observed client ----------------------- *)
\* the characters of the strings getFormatFromMimeType works on
Letters(str) ==
    IF str = "audio/webm;codecs=opus"
        THEN <<"a", "u", "d", "i", "o", "/", "w", "e", "b", "m", ";", "c",
             "o", "d", "e", "c", "s", "=", "o", "p", "u", "s">>
    ELSE IF str = "audio/webm"
        THEN <<"a", "u", "d", "i", "o", "/", "w", "e", "b", "m">>
    ELSE IF str = "audio/ogg;codecs=opus"
        THEN <<"a", "u", "d", "i", "o", "/", "o", "g", "g", ";", "c", "o",
             "d", "e", "c", "s", "=", "o", "p", "u", "s">>
    ELSE IF str = "audio/ogg"
        THEN <<"a", "u", "d", "i", "o", "/", "o", "g", "g">>
    ELSE IF str = "audio/wav"
        THEN <<"a", "u", "d", "i", "o", "/", "w", "a", "v">>
    ELSE IF str = "audio/mp4"
        THEN <<"a", "u", "d", "i", "o", "/", "m", "p", "4">>
    ELSE IF str = "webm"
        THEN <<"w", "e", "b", "m">>
    ELSE IF str = "ogg"
        THEN <<"o", "g", "g">>
    ELSE IF str = "wav"
        THEN <<"w", "a", "v">>
    ELSE IF str = "mp4"
        THEN <<"m", "p", "4">>
    ELSE << >>

\* String.prototype.includes
includes(text, word) ==
    \E i \in 1..(Len(text) - Len(word) + 1) : SubSeq(text, i, i + Len(word) - 1) = word

\* AudioClientV2.getFormatFromMimeType
getFormatFromMimeType(type) ==
    IF includes(Letters(type), Letters("webm")) THEN "webm"
    ELSE IF includes(Letters(type), Letters("ogg")) THEN "ogg"
    ELSE IF includes(Letters(type), Letters("wav")) THEN "wav"
    ELSE IF includes(Letters(type), Letters("mp4")) THEN "mp4"
    ELSE "webm"

\* AudioRecorder.getSupportedMimeType: the loop over the preference list from
\* entry i on, in a runtime that supports the given types
RECURSIVE firstSupported(_, _)
firstSupported(i, supported) ==
    IF i > Len(MimeTypes) THEN "audio/webm"
    ELSE IF MimeTypes[i] \in supported THEN MimeTypes[i]
    ELSE firstSupported(i + 1, supported)

\* (mutant) the loop leaves out the first entry of the list
getSupportedMimeTypeFromSecond(supported) == firstSupported(2, supported)

\* AudioRecorder.getSupportedMimeType
getSupportedMimeType(supported) == firstSupported(1, supported)

\* the steps on recording types leave the rest alone
ProbeOnly ==
    /\ UNCHANGED <<lastSend, failStreak, wire, lastConfig, up, emitted, applied,
                   heard, dev, em, maxFileSize, endpoint, legacy, tts>>
    /\ UNCHANGED wsVars
    /\ UNCHANGED recVars

\* the page runs in a runtime whose MediaRecorder supports the types S
LoadRuntime(S) ==
    /\ probe = NoProbe
    /\ probe' = [probe EXCEPT !.supported = S]
    /\ ProbeOnly

GetSupportedMimeType ==
    /\ probe' = [probe EXCEPT !.type = getSupportedMimeType(probe.supported)]
    /\ ProbeOnly

GetFormatFromMimeType ==
    /\ probe.type # "none"
    /\ probe' = [probe EXCEPT !.format = getFormatFromMimeType(probe.type)]
    /\ ProbeOnly

\* the recording type is chosen and tagged, in any runtime
NextMime ==
    \/ \E S \in SUBSET {MimeTypes[i] : i \in 1..Len(MimeTypes)} : LoadRuntime(S)
    \/ GetSupportedMimeType
    \/ GetFormatFromMimeType

SpecMime == Init /\ [][NextMime]_vars

\* (mutant) sendConfig sends the default model
ConfigMessageDefaultModel(ws, s) ==
    [sock |-> ws, model |-> "base", language |-> s.language]

\* WebSocketClient.sendConfig(model, language): the message put on socket ws
ConfigMessage(ws, s) == [sock |-> ws, model |-> s.model, language |-> s.language]

\* WebSocketClient.sendAudio(data, format, model, language) at the end of the
\* handleStreamingAudio call t: the message put on socket ws, with the Config
\* message that was the latest one transmitted before it
AudioMessage(ws, s, t) ==
    [sock |-> ws, model |-> s.model, language |-> s.language, kind |-> t.kind,
     blob |-> t.blob, format |-> getFormatFromMimeType(t.type), cfg |-> lastConfig]

\* the open event, with the Config message of the `connected` listener
ObservedOpens(s) ==
    /\ SocketOpens(s)
    /\ UNCHANGED <<failStreak, wire, offWire>>
    /\ lastConfig' = IF lastSend'.wire THEN ConfigMessage(websocket, settings)
                                       ELSE lastConfig

\* a conversion settles, with the Audio message of sendAudio
ObservedEncodeSettles(t, read) ==
    /\ EncodeSettles(t, read)
    /\ read /\ lastSend'.wire => Len(wire) < MaxWire
    /\ wire' = IF read /\ lastSend'.wire
                  THEN Append(wire, AudioMessage(websocket, settings, t))
                  ELSE wire
    /\ emitted' = IF read THEN "none" ELSE "SEND_AUDIO_FAILED"
    /\ UNCHANGED <<lastConfig, up, applied, heard, dev, em, extVars>>

\* updateSettings, with the Config message of sendConfig
ObservedUpdateSettings(new) ==
    /\ UpdateSettings(new)
    /\ UNCHANGED <<wire, offWire>>
    /\ lastConfig' = IF acConnected /\ lastSend'.wire
                        THEN ConfigMessage(websocket, settings')
                        ELSE lastConfig

\* the model and language values the caller switches between
ModelValues == [model : {"base", "small"}, language : {"null", "en"},
                recordingMode : {"streaming"}, autoSend : {TRUE}]

\* The client with every transmitted message recorded, under a caller that
\* connects once and starts a recording only when the previous one is over,
\* over a connection that opens and may be closed by the server for good.
NextWire ==
    \/ ConnectOnce
    \/ \E s \in SockIds : ObservedOpens(s)
    \/ \E s \in SockIds : SocketDrops(s, 1000) /\ WsOnly
    \/ \E suspended \in BOOLEAN, out \in StartOutcomes : StartWhenIdle(suspended, out)
    \/ \E c \in BagToSet(calls), granted \in BOOLEAN :
          PermissionSettles(c, granted) /\ Quiet
    \/ \E c \in BagToSet(calls), ok, suspended \in BOOLEAN, out \in StartOutcomes :
          StreamSettles(c, ok, suspended, out) /\ Quiet
    \/ \E c \in BagToSet(calls), out \in StartOutcomes : ResumeSettles(c, out) /\ Quiet
    \/ StopRecording /\ Quiet
    \/ \E e \in EncIds : Flush(e) /\ Quiet
    \/ \E e \in EncIds, hasData \in BOOLEAN : StopEvent(e, hasData) /\ Quiet
    \/ \E t \in BagToSet(tasks), read \in BOOLEAN : ObservedEncodeSettles(t, read)
    \/ \E new \in SettingsValues : ObservedUpdateSettings(new)

SpecWire == Init /\ [][NextWire]_vars

\* The same client under a caller that changes the model and the language.
NextConfig ==
    \/ ConnectOnce
    \/ \E s \in SockIds : ObservedOpens(s)
    \/ \E s \in SockIds : SocketDrops(s, 1000) /\ WsOnly
    \/ \E suspended \in BOOLEAN, out \in StartOutcomes : StartWhenIdle(suspended, out)
    \/ \E c \in BagToSet(calls), granted \in BOOLEAN :
          PermissionSettles(c, granted) /\ Quiet
    \/ \E c \in BagToSet(calls), ok, suspended \in BOOLEAN, out \in StartOutcomes :
          StreamSettles(c, ok, suspended, out) /\ Quiet
    \/ \E c \in BagToSet(calls), out \in StartOutcomes : ResumeSettles(c, out) /\ Quiet
    \/ StopRecording /\ Quiet
    \/ \E e \in EncIds : Flush(e) /\ Quiet
    \/ \E e \in EncIds, hasData \in BOOLEAN : StopEvent(e, hasData) /\ Quiet
    \/ \E t \in BagToSet(tasks), read \in BOOLEAN : ObservedEncodeSettles(t, read)
    \/ \E new \in ModelValues : ObservedUpdateSettings(new)

SpecConfig == Init /\ [][NextConfig]_vars

\* the partial updates a caller passes: any fields, any of their values
AllSettings == [model : FieldValues("model"), language : FieldValues("language"),
                recordingMode : FieldValues("recordingMode"),
                autoSend : FieldValues("autoSend")]

PartialUpdates == {[f \in D |-> full[f]] : full \in AllSettings, D \in SUBSET Fields}

\* updateSettings(p), with the call recorded
ObservedApply(p) ==
    /\ updateSettings(p)
    /\ applied' = <<[p |-> p, before |-> settings]>>
    /\ lastConfig' = IF acConnected /\ lastSend'.wire
                        THEN ConfigMessage(websocket, settings')
                        ELSE lastConfig
    /\ UNCHANGED <<wire, up, emitted, heard, dev, em, extVars>>

\* The settings of a client whose caller connects once and applies updates.
NextSettings ==
    \/ ConnectOnce
    \/ \E s \in SockIds : ObservedOpens(s)
    \/ \E s \in SockIds : SocketDrops(s, 1000) /\ WsOnly
    \/ \E p \in PartialUpdates : ObservedApply(p)

SpecSettings == Init /\ [][NextSettings]_vars

(* ----------------------- WebSocketClient's events ---------------------- *)
\* this.events.emit(name, payload): the event with the code its payload
\* carries and its number (close code, or attempt)
WsEvent(name, code, num) == [name |-> name, code |-> code, num |-> num]

\* what websocket.onerror emits
onerrorEvents == <<WsEvent("error", "WEBSOCKET_ERROR", 0)>>

\* what websocket.onopen emits
onopenEvents == <<WsEvent("connected", "", 0)>>

\* what websocket.onclose emits for a close event with the given code
oncloseEvents(code) ==
    <<WsEvent("disconnected", "", code)>> \o
       (IF code # 1000 /\ shouldReconnect
           THEN <<WsEvent("reconnecting", "", currentAttempt + 1)>>
           ELSE << >>)

\* inbound frames: JSON objects by their type field ("other": any other or no
\* type), the JSON text null, and text that is not JSON
InboundMessages == {"connection", "config", "transcription", "error", "pong",
                    "other", "null", "unparsable"}

\* what websocket.onmessage -> handleMessage emits for the frame m
onmessageEvents(m) ==
    IF m \in {"unparsable", "null"} THEN <<WsEvent("error", "MESSAGE_PARSE_ERROR", 0)>>
    ELSE IF m = "error" THEN <<WsEvent("error", "SERVER_ERROR", 0)>>
    ELSE IF m = "other" THEN <<WsEvent("unknownMessage", "", 0)>>
    ELSE <<WsEvent(m, "", 0)>>

\* what the steps that record events leave alone
Mute == UNCHANGED <<wire, lastConfig, up, emitted, applied, dev, em, extVars>>

HeardOpens(s) ==
    SocketOpens(s) /\ failStreak' = NoFailures /\ heard' = onopenEvents /\ Mute

HeardFails(s) ==
    /\ SocketFails(s)
    /\ failStreak' = CountFailure(failStreak, s)
    /\ heard' = onerrorEvents \o oncloseEvents(1006)
    /\ Mute

HeardDrops(s, code) ==
    /\ SocketDrops(s, code)
    /\ heard' = oncloseEvents(code)
    /\ UNCHANGED failStreak
    /\ Mute

\* a frame arrives on the open socket s: onmessage runs and only emits
HeardMessage(s, m) ==
    /\ sock[s].rs = "OPEN"
    /\ heard' = onmessageEvents(m)
    /\ UNCHANGED <<lastSend, failStreak>>
    /\ UNCHANGED wsVars
    /\ UNCHANGED recVars
    /\ Mute

\* WebSocketClient with its events recorded, after one connect() call, left
\* to its reconnection loop and to the frames the server sends.
NextEvents ==
    \/ ConnectOnce
    \/ \E s \in SockIds : HeardOpens(s)
    \/ \E s \in SockIds : HeardFails(s)
    \/ \E s \in SockIds, code \in {1000, 1006} : HeardDrops(s, code)
    \/ \E s \in SockIds, m \in InboundMessages : HeardMessage(s, m)
    \/ \E t \in BagToSet(timers) : Retry(t)
    \/ Ping

SpecEvents == Init /\ [][NextEvents]_vars

(* ---------------- AudioRecorder's device and level sampling ------------ *)
\* what the steps of the recorder's device leave alone
Undisturbed == UNCHANGED <<wire, lastConfig, up, emitted, applied, heard, em, extVars>>

\* AudioRecorder.setupAudioAnalysis, with the updateAudioLevel call that ends
\* it: the analyser is set, `audioLevel` is emitted and, the stream being
\* set, a frame is requested (ok = FALSE: creating the audio context throws)
setupAudioAnalysis(d, ok) ==
    IF ok THEN [d EXCEPT !.analyser = TRUE, !.level = ~@, !.loops = @ + 1,
                         !.animationFrame = TRUE]
          ELSE d

\* AudioRecorder.requestMicrophoneAccess once getUserMedia resolved: the
\* stream is stored and setupAudioAnalysis runs
getUserMedia(d, ok) ==
    setupAudioAnalysis([d EXCEPT !.streams = @ + 1, !.acquired = @ + 1], ok)

\* there is room for one more stream and one more sampling loop
DeviceRoom == dev.streams < MaxStreams /\ dev.loops < MaxStreams

\* AudioRecorder.cleanup, the part on the device: the pending frame is
\* cancelled, the tracks of the stream held are stopped, the analyser dropped
release(d) ==
    [d EXCEPT !.loops = IF d.animationFrame /\ @ > 0 THEN @ - 1 ELSE @,
              !.animationFrame = FALSE,
              !.streams = IF audioStream THEN @ - 1 ELSE @,
              !.analyser = FALSE,
              !.acquired = 0,
              !.released = TRUE]

\* an animation frame requested by updateAudioLevel fires
AnimationFrame ==
    /\ dev.loops > 0
    /\ dev' = IF ~dev.analyser THEN [dev EXCEPT !.loops = @ - 1]
              ELSE IF isRecording \/ audioStream
                      THEN [dev EXCEPT !.level = ~@, !.animationFrame = TRUE]
                      ELSE [dev EXCEPT !.level = ~@, !.loops = @ - 1]
    /\ UNCHANGED <<lastSend, failStreak>>
    /\ UNCHANGED wsVars
    /\ UNCHANGED recVars
    /\ Undisturbed

\* the caller invokes requestMicrophoneAccess itself
RequestMicrophoneAccess ==
    /\ dev.asking + dev.opening + BagCardinality(calls) < MaxCalls
    /\ dev' = [dev EXCEPT !.asking = @ + 1, !.released = FALSE]
    /\ UNCHANGED <<lastSend, failStreak>>
    /\ UNCHANGED wsVars
    /\ UNCHANGED recVars
    /\ Undisturbed

\* Utils.requestMicrophonePermission settles for such a call
AccessPermissionSettles(granted) ==
    /\ dev.asking > 0
    /\ dev' = [dev EXCEPT !.asking = @ - 1,
                          !.opening = IF granted THEN @ + 1 ELSE @]
    /\ UNCHANGED <<lastSend, failStreak>>
    /\ UNCHANGED wsVars
    /\ UNCHANGED recVars
    /\ Undisturbed

\* getUserMedia settles for such a call
AccessStreamSettles(ok, analysis) ==
    /\ dev.opening > 0
    /\ ok => DeviceRoom
    /\ audioStream' = (ok \/ audioStream)
    /\ dev' = IF ok THEN getUserMedia([dev EXCEPT !.opening = @ - 1], analysis)
                    ELSE [dev EXCEPT !.opening = @ - 1]
    /\ UNCHANGED <<mediaRecorder, isRecording, recordedChunks, enc, calls, settings,
                   acRecording, tasks, mimeType, batchOutcome, stored>>
    /\ UNCHANGED <<lastSend, failStreak>>
    /\ UNCHANGED wsVars
    /\ Undisturbed

\* startRecording, and the awaits inside it, with the device
DeviceStart(suspended, out) ==
    /\ StartRecording(suspended, out)
    /\ dev.asking + dev.opening + BagCardinality(calls') <= MaxCalls
    /\ dev' = [dev EXCEPT !.released = FALSE]
    /\ Undisturbed

DeviceStream(c, ok, analysis, suspended, out) ==
    /\ StreamSettles(c, ok, suspended, out)
    /\ ok => DeviceRoom
    /\ dev' = IF ok THEN getUserMedia(dev, analysis) ELSE dev
    /\ Undisturbed

\* the caller invokes AudioRecorder.cleanup
RecorderCleanup ==
    /\ recorderCleanup
    /\ dev' = release(dev)
    /\ UNCHANGED <<calls, settings, acRecording, tasks, mimeType, stored, batchOutcome>>
    /\ UNCHANGED <<lastSend, failStreak>>
    /\ UNCHANGED wsVars
    /\ Undisturbed

\* The recorder and its device over a connection that stays up: the caller
\* asks for the microphone, starts, stops and cleans up in any order.
NextDevice ==
    \/ ConnectOnce
    \/ \E s \in SockIds : SocketOpens(s) /\ WsOnly
    \/ RequestMicrophoneAccess
    \/ \E granted \in BOOLEAN : AccessPermissionSettles(granted)
    \/ \E ok, analysis \in BOOLEAN : AccessStreamSettles(ok, analysis)
    \/ \E suspended \in BOOLEAN, out \in StartOutcomes : DeviceStart(suspended, out)
    \/ \E c \in BagToSet(calls), granted \in BOOLEAN :
          PermissionSettles(c, granted) /\ Quiet
    \/ \E c \in BagToSet(calls), ok, analysis, suspended \in BOOLEAN,
          out \in StartOutcomes : DeviceStream(c, ok, analysis, suspended, out)
    \/ \E c \in BagToSet(calls), out \in StartOutcomes : ResumeSettles(c, out) /\ Quiet
    \/ StopRecording /\ Quiet
    \/ \E e \in EncIds : StopEvent(e, FALSE) /\ Quiet
    \/ AnimationFrame
    \/ RecorderCleanup

SpecDevice == Init /\ [][NextDevice]_vars

(* ----------------------- Utils.createEventEmitter ---------------------- *)
\* event names, and the callbacks a caller registers: one that returns, one
\* that throws, one that removes the callback "plain" from the event being
\* emitted, one that registers it once more
EventNames == {"error", "audioLevel"}

Callbacks == {"plain", "throws", "remover", "adder"}

\* the registrations a caller makes: any callback for `error`, the plain one
\* for `audioLevel`
Registrations ==
    {r \in EventNames \X Callbacks : r[1] = "error" \/ r[2] = "plain"}

\* the array events[name], or the empty one when there is none
listeners(ev, name) == IF name \in DOMAIN ev THEN ev[name] ELSE << >>

\* on(event, callback)
on(ev, name, cb) ==
    IF name \in DOMAIN ev THEN [ev EXCEPT ![name] = Append(@, cb)]
                          ELSE ev @@ (name :> <<cb>>)

\* off(event, callback): filter(cb => cb !== callback) into a new array
off(ev, name, cb) ==
    IF name \in DOMAIN ev
       THEN [ev EXCEPT ![name] = SelectSeq(@, LAMBDA c : c # cb)]
       ELSE ev

\* what calling the callback does to the emitter
callback(cb, name, ev) ==
    IF cb = "remover" THEN off(ev, name, "plain")
    ELSE IF cb = "adder" THEN on(ev, name, "plain")
    ELSE ev

\* (mutant) the exception of a callback leaves the loop
rethrows(cb) == cb # "throws"

\* emit's try / catch: the loop goes on after the callback, thrown or not
catches(cb) == TRUE

\* events[event].forEach over the array L as it was when emit was called,
\* from index i on: the emitter and the calls made so far are in e
RECURSIVE forEach(_, _, _, _)
forEach(L, i, name, e) ==
    IF i > Len(L) THEN e
    ELSE LET after == [events |-> callback(L[i], name, e.events),
                       called |-> Append(e.called, [name |-> name, cb |-> L[i]])]
         IN IF catches(L[i]) THEN forEach(L, i + 1, name, after) ELSE after

\* emit(event, data)
emit(ev, name) ==
    forEach(listeners(ev, name), 1, name, [events |-> ev, called |-> << >>])

\* the steps of an emitter leave the rest alone
EmitterOnly ==
    /\ UNCHANGED <<lastSend, failStreak, wire, lastConfig, up, emitted, applied,
                   heard, dev, extVars>>
    /\ UNCHANGED wsVars
    /\ UNCHANGED recVars

On(name, cb) ==
    /\ Len(listeners(em.events, name)) < MaxListeners
    /\ em' = [events |-> on(em.events, name, cb), called |-> << >>]
    /\ EmitterOnly

Off(name, cb) ==
    /\ em' = [events |-> off(em.events, name, cb), called |-> << >>]
    /\ EmitterOnly

Emit(name) ==
    /\ \A n \in EventNames : Len(listeners(emit(em.events, name).events, n)) <= MaxListeners
    /\ em' = emit(em.events, name)
    /\ EmitterOnly

\* one emitter under any sequence of on, off and emit calls
NextEmitter ==
    \/ \E r \in Registrations : On(r[1], r[2])
    \/ \E r \in Registrations : Off(r[1], r[2])
    \/ \E name \in EventNames : Emit(name)

SpecEmitter == Init /\ [][NextEmitter]_vars

(* ------------------------------ FileUploader --------------------------- *)
\* this.events.emit(name, payload): the event with its error code and the
\* attempt number it carries
Event(name, code, attempt) == [name |-> name, code |-> code, attempt |-> attempt]

\* FileUploader.uploadFile(file) up to its first await, inside a call that
\* goes on to poll (wait) with the given maxAttempts option (0: not given)
uploadFile(file, wait, option) ==
    LET call == [NoUpload EXCEPT !.file = file, !.wait = wait,
                     !.maxAttempts = IF option = 0 THEN defaultMaxAttempts ELSE option]
    IN IF ~validateFile(file)
          THEN [call EXCEPT !.phase = "done", !.promise = "FILE_VALIDATION_FAILED",
                            !.events = <<Event("error", "FILE_VALIDATION_FAILED", 0)>>]
          ELSE [call EXCEPT !.phase = "post", !.promise = "pending", !.posts = 1,
                            !.events = <<Event("uploadStarted", "", 0)>>]

\* the promise of the call settles with the given value unless it has settled
Settle(u, value) == IF u.promise = "pending" THEN value ELSE u.promise

\* (mutant) poll() does not count the attempt
pollUncounted(u) == [u EXCEPT !.phase = "status"]

\* pollForResult's inner poll() up to its await: one more status request
poll(u) == [u EXCEPT !.phase = "status", !.attempts = u.attempts + 1]

\* the rest of uploadFile once the POST has been answered (ok: with a 2xx
\* response and a JSON body), and pollForResult's first poll() after it
PostAnswered(u, ok) ==
    IF ~ok
       THEN [u EXCEPT !.phase = "done", !.promise = "UPLOAD_FAILED",
                      !.events = Append(u.events, Event("error", "UPLOAD_FAILED", 0))]
    ELSE LET v == [u EXCEPT !.events = Append(u.events, Event("uploadCompleted", "", 0))]
         IN IF u.wait THEN poll(v)
                      ELSE [v EXCEPT !.phase = "done", !.promise = "uploaded"]

\* (mutant) a status request that fails at the HTTP level is tried again
StatusAnsweredRetrying(u, r) ==
    CASE r = "completed" ->
           [u EXCEPT !.phase = "done", !.promise = Settle(u, "completed"),
                     !.events = Append(u.events, Event("transcription", "", u.attempts))]
      [] r = "failed" ->
           [u EXCEPT !.phase = "done", !.promise = Settle(u, "TRANSCRIPTION_FAILED"),
                     !.events = Append(u.events, Event("error", "TRANSCRIPTION_FAILED", u.attempts))]
      [] r \in {"processing", "httpError"} /\ u.attempts < u.maxAttempts ->
           [u EXCEPT !.phase = "timer", !.promise = Settle(u, "undefined"),
                     !.events = Append(u.events, Event("polling", "", u.attempts))]
      [] OTHER ->
           [u EXCEPT !.phase = "done", !.promise = Settle(u, "TRANSCRIPTION_TIMEOUT"),
                     !.events = Append(u.events, Event("error", "TRANSCRIPTION_TIMEOUT", u.attempts))]

\* the rest of poll() once the status request has been answered with status r
\* ("httpError": the response is not ok, or fetch rejects)
StatusAnswered(u, r) ==
    CASE r = "completed" ->
           [u EXCEPT !.phase = "done", !.promise = Settle(u, "completed"),
                     !.events = Append(u.events, Event("transcription", "", u.attempts))]
      [] r = "failed" ->
           [u EXCEPT !.phase = "done", !.promise = Settle(u, "TRANSCRIPTION_FAILED"),
                     !.events = Append(u.events, Event("error", "TRANSCRIPTION_FAILED", u.attempts))]
      [] r = "httpError" ->
           [u EXCEPT !.phase = "done", !.promise = Settle(u, "POLLING_FAILED"),
                     !.events = Append(u.events, Event("error", "POLLING_FAILED", u.attempts))]
      [] r = "processing" /\ u.attempts < u.maxAttempts ->
           [u EXCEPT !.phase = "timer", !.promise = Settle(u, "undefined"),
                     !.events = Append(u.events, Event("polling", "", u.attempts))]
      [] OTHER ->
           [u EXCEPT !.phase = "done", !.promise = Settle(u, "TRANSCRIPTION_TIMEOUT"),
                     !.events = Append(u.events, Event("error", "TRANSCRIPTION_TIMEOUT", u.attempts))]

\* what the uploader steps leave alone
UploaderOnly ==
    /\ UNCHANGED <<lastSend, failStreak, wire, lastConfig, emitted, applied, heard,
                   dev, em, extVars>>
    /\ UNCHANGED wsVars
    /\ UNCHANGED recVars

\* file sizes around the ceiling, and file types in and outside the allow-list
FileSizes == {1, maxSize, maxSize + 1}

FileTypes == {"audio/webm", "audio/webm;codecs=opus", "audio/wav", "text/plain"}

Files == {NoFile} \cup {File(size, type) : size \in FileSizes, type \in FileTypes}

\* the caller invokes FileUploader.uploadFile(file)
UploadFile(file) ==
    /\ up.phase \in {"idle", "done"}
    /\ up' = uploadFile(file, FALSE, 0)
    /\ UploaderOnly

\* the caller invokes FileUploader.uploadAndWaitForResult(file, {maxAttempts})
UploadAndWaitForResult(file, option) ==
    /\ up.phase \in {"idle", "done"}
    /\ up' = uploadFile(file, TRUE, option)
    /\ UploaderOnly

\* the POST request is answered
PostResponds(ok) ==
    /\ up.phase = "post"
    /\ up' = PostAnswered(up, ok)
    /\ UploaderOnly

\* a status request is answered
StatusResponds(r) ==
    /\ up.phase = "status"
    /\ up' = StatusAnswered(up, r)
    /\ UploaderOnly

\* the setTimeout(poll, pollInterval) timer fires
PollTimer ==
    /\ up.phase = "timer"
    /\ up.attempts < MaxAttempts
    /\ up' = poll(up)
    /\ UploaderOnly

StatusValues == {"completed", "failed", "processing", "httpError"}

\* FileUploader alone, under a caller that makes one call at a time
NextUpload ==
    \/ \E file \in Files : UploadFile(file)
    \/ \E file \in Files, option \in 0..MaxAttempts : UploadAndWaitForResult(file, option)
    \/ \E ok \in BOOLEAN : PostResponds(ok)
    \/ \E r \in StatusValues : StatusResponds(r)
    \/ PollTimer

SpecUpload == Init /\ [][NextUpload]_vars

\* the caller invokes FileUploader.updateUploadSettings({maxFileSize: m})
UpdateUploadSettings(m) ==
    /\ maxFileSize' = m
    /\ UNCHANGED <<lastSend, failStreak, wire, lastConfig, up, emitted, applied,
                   heard, dev, em, probe, endpoint, legacy, tts>>
    /\ UNCHANGED wsVars
    /\ UNCHANGED recVars

\* FileUploader.getMaxFileSize
getMaxFileSize == maxFileSize

\* FileUploader under a caller that sets the size ceiling and uploads files
\* of sizes around it
NextCeiling ==
    \/ \E m \in FileSizes : UpdateUploadSettings(m)
    \/ \E file \in Files : UploadFile(file)
    \/ \E file \in Files, option \in 0..MaxAttempts : UploadAndWaitForResult(file, option)
    \/ \E ok \in BOOLEAN : PostResponds(ok)
    \/ \E r \in StatusValues : StatusResponds(r)
    \/ PollTimer

SpecCeiling == Init /\ [][NextCeiling]_vars

\* uploadAndWaitForResult calls with a maxAttempts option, one at a time,
\* where every request is answered in the end and every timer fires
NextPoll ==
    \/ \E file \in Files, option \in 1..MaxAttempts : UploadAndWaitForResult(file, option)
    \/ \E ok \in BOOLEAN : PostResponds(ok)
    \/ \E r \in StatusValues : StatusResponds(r)
    \/ PollTimer

SpecPoll ==
    /\ Init
    /\ [][NextPoll]_vars
    /\ WF_vars(\E ok \in BOOLEAN : PostResponds(ok))
    /\ WF_vars(\E r \in StatusValues : StatusResponds(r))
    /\ WF_vars(PollTimer)

\* the stop event, with handleBatchRecording's HTTP fallback: the recording
\* becomes a File of the blob's type and goes to uploadAndWaitForResult with
\* no maxAttempts option (one such call at a time)
ObservedStopEvent(e, hasData) ==
    /\ StopEvent(e, hasData)
    /\ IF BatchDispatch(IF hasData THEN PushChunk(e) ELSE recordedChunks)
             \in {"uploaded", "rejected"}
          THEN /\ up.phase \in {"idle", "done"}
               /\ up' = uploadFile(File(1, BlobType(mediaRecorder)), TRUE, 0)
          ELSE UNCHANGED up
    /\ UNCHANGED <<wire, lastConfig, emitted, applied, heard, dev, em, extVars>>

\* The client with its uploads recorded, under a caller that connects once
\* and starts a recording only when the previous one is over, over a
\* connection that opens and may be closed by the server for good.
NextOffline ==
    \/ ConnectOnce
    \/ \E s \in SockIds : SocketOpens(s) /\ WsOnly
    \/ \E s \in SockIds : SocketDrops(s, 1000) /\ WsOnly
    \/ \E suspended \in BOOLEAN, out \in StartOutcomes : StartWhenIdle(suspended, out)
    \/ \E c \in BagToSet(calls), granted \in BOOLEAN :
          PermissionSettles(c, granted) /\ Quiet
    \/ \E c \in BagToSet(calls), ok, suspended \in BOOLEAN, out \in StartOutcomes :
          StreamSettles(c, ok, suspended, out) /\ Quiet
    \/ \E c \in BagToSet(calls), out \in StartOutcomes : ResumeSettles(c, out) /\ Quiet
    \/ StopRecording /\ Quiet
    \/ \E e \in EncIds : Flush(e) /\ Quiet
    \/ \E e \in EncIds, hasData \in BOOLEAN : ObservedStopEvent(e, hasData)
    \/ \E t \in BagToSet(tasks), read \in BOOLEAN : EncodeSettles(t, read) /\ Quiet
    \/ \E new \in SettingsValues : UpdateSettings(new) /\ Quiet
    \/ \E ok \in BOOLEAN : PostResponds(ok)
    \/ \E r \in StatusValues : StatusResponds(r)
    \/ PollTimer

SpecOffline == InitClient /\ [][NextOffline]_vars

(* ----------------------- the legacy AudioClient ------------------------ *)
\* what a step of the legacy client leaves alone
LegacyOnly ==
    /\ UNCHANGED <<lastSend, failStreak, wire, lastConfig, up, emitted, applied,
                   heard, dev, em, probe, maxFileSize, endpoint, tts>>
    /\ UNCHANGED wsVars
    /\ UNCHANGED recVars

\* AudioClient.stopRecording: MediaRecorder.stop() delivers its data and its
\* stop event later
legacyStopRecording(l) ==
    IF ~l.isRecording \/ l.recorder # "recording" THEN l
    ELSE [l EXCEPT !.recorder = "stopping", !.isRecording = FALSE]

\* AudioClient.disconnect: close(1000) and forget the socket, stopRecording,
\* isConnected = false
legacyDisconnect(l) ==
    [legacyStopRecording([l EXCEPT !.ws = "null"]) EXCEPT !.isConnected = FALSE]

\* AudioClient.sendAudioChunk up to its await: nothing without a connection,
\* otherwise blobToBase64 is pending
sendAudioChunk(l, audioBlob) ==
    IF ~l.isConnected \/ l.ws = "null" THEN l
    ELSE [l EXCEPT !.encoding = audioBlob]

\* AudioClient.sendAudioFile
sendAudioFile(l, audioBlob) == sendAudioChunk(l, audioBlob)

\* the caller invokes AudioClient.connect while no socket is live
LegacyConnect ==
    /\ legacy.ws \in {"null", "CLOSED"}
    /\ legacy' = [legacy EXCEPT !.ws = "CONNECTING"]
    /\ LegacyOnly

\* websocket.onopen
LegacyOpens ==
    /\ legacy.ws = "CONNECTING"
    /\ legacy' = [legacy EXCEPT !.ws = "OPEN", !.isConnected = TRUE]
    /\ LegacyOnly

\* websocket.onclose: a close other than 1000 sets the 5 s reconnect timer
LegacyCloses(code) ==
    /\ legacy.ws \in {"CONNECTING", "OPEN"}
    /\ legacy' = [legacy EXCEPT !.ws = "CLOSED", !.isConnected = FALSE,
                                !.reconnect = (@ \/ code # 1000)]
    /\ LegacyOnly

\* the reconnect timer fires: AudioClient.reconnect
LegacyReconnect ==
    /\ legacy.reconnect
    /\ legacy' = IF legacy.isConnected THEN [legacy EXCEPT !.reconnect = FALSE]
                 ELSE [legacy EXCEPT !.reconnect = FALSE, !.ws = "CONNECTING"]
    /\ LegacyOnly

\* the caller invokes AudioClient.startRecording (access granted) once the
\* recorder before it has finished
LegacyStart ==
    /\ ~legacy.isRecording
    /\ legacy.recorder \in {"none", "inactive"}
    /\ legacy.encoding = << >>
    /\ legacy' = [legacy EXCEPT !.audioStream = TRUE, !.isRecording = TRUE,
                                !.recorder = "recording", !.recordedChunks = << >>,
                                !.stopped = FALSE, !.sent = << >>, !.errors = 0]
    /\ LegacyOnly

\* the caller invokes AudioClient.stopRecording
LegacyStop ==
    /\ legacy.isRecording
    /\ legacy' = legacyStopRecording(legacy)
    /\ LegacyOnly

\* mediaRecorder.ondataavailable, once per recording without a timeslice
LegacyDataAvailable(size) ==
    /\ legacy.recorder = "stopping"
    /\ legacy' = [legacy EXCEPT !.recorder = "flushed",
                                !.recordedChunks = IF size > 0 THEN Append(@, size)
                                                   ELSE @]
    /\ LegacyOnly

\* mediaRecorder.onstop in batch mode
LegacyOnStop ==
    /\ legacy.recorder = "flushed"
    /\ legacy' = IF Len(legacy.recordedChunks) > 0
                 THEN [sendAudioFile(legacy, legacy.recordedChunks)
                          EXCEPT !.recorder = "inactive", !.stopped = TRUE]
                 ELSE [legacy EXCEPT !.recorder = "inactive"]
    /\ LegacyOnly

\* blobToBase64 resolves and sendAudioChunk goes on to websocket.send: a
\* TypeError on null and an InvalidStateError on a CONNECTING socket are
\* caught and reported, a closed socket discards the frame
LegacyEncoded ==
    /\ legacy.encoding # << >>
    /\ legacy' = [legacy EXCEPT
                     !.encoding = << >>,
                     !.sent = IF legacy.ws = "OPEN" THEN Append(@, legacy.encoding)
                              ELSE @,
                     !.errors = IF legacy.ws \in {"null", "CONNECTING"} THEN 1 ELSE @]
    /\ LegacyOnly

\* the caller invokes AudioClient.disconnect
LegacyDisconnect ==
    /\ legacy' = legacyDisconnect(legacy)
    /\ LegacyOnly

\* the caller invokes AudioClient.cleanup: stopRecording, the stream is
\* released, disconnect
LegacyCleanup ==
    /\ legacy' = legacyDisconnect([legacyStopRecording(legacy)
                                      EXCEPT !.audioStream = FALSE])
    /\ LegacyOnly

\* the legacy AudioClient in batch mode, its socket and its recorder
NextLegacy ==
    \/ LegacyConnect
    \/ LegacyOpens
    \/ \E code \in {1000, 1006} : LegacyCloses(code)
    \/ LegacyReconnect
    \/ LegacyStart
    \/ LegacyStop
    \/ \E size \in 0..MaxChunks : LegacyDataAvailable(size)
    \/ LegacyOnStop
    \/ LegacyEncoded
    \/ LegacyDisconnect
    \/ LegacyCleanup

SpecLegacy == Init /\ [][NextLegacy]_vars

(* ------------------------------ TTSClient ------------------------------ *)
\* what a step of the TTS client leaves alone
TtsOnly ==
    /\ UNCHANGED <<lastSend, failStreak, wire, lastConfig, up, emitted, applied,
                   heard, dev, em, probe, maxFileSize, endpoint, legacy>>
    /\ UNCHANGED wsVars
    /\ UNCHANGED recVars

TtsFreeIds(t) == {i \in SockIds : t.socks[i] = "NONE"}

\* TTSClient.connectWebSocket: new WebSocket(.../ws/synthesize) replaces
\* this.ws, the four handlers are attached to it
connectWebSocket(t) ==
    LET id == CHOOSE i \in TtsFreeIds(t) : \A j \in TtsFreeIds(t) : i <= j
    IN  [t EXCEPT !.ws = id, !.socks[id] = "CONNECTING"]

\* the caller invokes connectWebSocket(), directly or through initialize()
TtsConnectWebSocket ==
    /\ TtsFreeIds(tts) # {}
    /\ tts' = [connectWebSocket(tts) EXCEPT !.disconnected = FALSE]
    /\ TtsOnly

\* ws.onopen of socket s
TtsOpens(s) ==
    /\ tts.socks[s] = "CONNECTING"
    /\ tts' = [tts EXCEPT !.socks[s] = "OPEN", !.isConnected = TRUE]
    /\ TtsOnly

\* ws.onclose of socket s (after ws.onerror when the connection failed):
\* isConnected = false and the 3 s reconnection timer is set
TtsCloses(s) ==
    /\ tts.socks[s] \in {"CONNECTING", "OPEN", "CLOSING"}
    /\ tts.timers < MaxSockets
    /\ tts' = [tts EXCEPT !.socks[s] = "NONE", !.isConnected = FALSE,
                          !.timers = @ + 1]
    /\ TtsOnly

\* a reconnection timer fires
TtsTimer ==
    /\ tts.timers > 0
    /\ tts.isConnected \/ TtsFreeIds(tts) # {}
    /\ tts' = IF tts.isConnected THEN [tts EXCEPT !.timers = @ - 1]
              ELSE [connectWebSocket(tts) EXCEPT !.timers = @ - 1]
    /\ TtsOnly

\* the caller invokes TTSClient.disconnect
TtsDisconnect ==
    /\ tts' = IF tts.ws = 0 THEN [tts EXCEPT !.disconnected = TRUE]
              ELSE [tts EXCEPT !.socks[tts.ws] = IF @ \in {"CONNECTING", "OPEN"}
                                                 THEN "CLOSING" ELSE @,
                               !.ws = 0, !.isConnected = FALSE,
                               !.disconnected = TRUE]
    /\ TtsOnly

\* the TTSClient driven by its caller, its sockets and its timers
NextTts ==
    \/ TtsConnectWebSocket
    \/ \E s \in SockIds : TtsOpens(s)
    \/ \E s \in SockIds : TtsCloses(s)
    \/ TtsTimer
    \/ TtsDisconnect

SpecTts == Init /\ [][NextTts]_vars

(* ------------------------------- claims -------------------------------- *)
LiveSockets == {i \in SockIds : sock[i].rs \in {"CONNECTING", "OPEN"}}

\* C1: once the caller's latest call is disconnect(), the client holds no
\* socket and is not connected: no connection is made until connect() is called.
C1_DisconnectSuppressesReconnect ==
    callerIntent = "disconnect" => (websocket = 0 /\ ~isConnected)

\* C2 (as stated): after reconnectAttempts consecutive failed connection
\* attempts with no open in between, the client is Disconnected, no reconnect
\* timer is pending and no connection attempt is under way.
C2_StopsAfterMaxFailures ==
    failStreak.caller + failStreak.auto >= reconnectAttempts =>
        (~isConnected /\ timers = EmptyBag /\ LiveSockets = {})

\* C2 (amended): after reconnectAttempts consecutive failed automatic
\* reconnection attempts (the attempt made by the caller's connect() not
\* counted) with no open in between, the client is Disconnected, no reconnect
\* timer is pending, no connection attempt is under way and the attempt
\* counter stands at reconnectAttempts, which it never exceeds.
C2_StopsAfterMaxRetries ==
    /\ currentAttempt <= reconnectAttempts
    /\ failStreak.auto >= reconnectAttempts =>
          /\ ~isConnected
          /\ timers = EmptyBag
          /\ LiveSockets = {}
          /\ currentAttempt = reconnectAttempts

\* C2 witness: the initial attempt and all reconnectAttempts retries failed.
C2_Exhausted ==
    /\ failStreak = [caller |-> 1, auto |-> reconnectAttempts, first |-> 0]
    /\ currentAttempt = reconnectAttempts
    /\ timers = EmptyBag
    /\ LiveSockets = {}
    /\ ~isConnected

\* the delays the n-th reconnection waits with the default settings
DefaultDelays == <<1000, 2000, 4000, 8000, 16000>>

\* C3: the n-th reconnection is scheduled with delay
\* reconnectDelay * reconnectBackoff^(n-1) (1000, 2000, 4000, 8000, 16000), the
\* `reconnecting` event reports that attempt number and delay, and the attempt
\* counter never exceeds reconnectAttempts.
C3_BackoffSchedule ==
    /\ currentAttempt \in 0..reconnectAttempts
    /\ \A t \in BagToSet(timers) :
          t.attempt \in 1..reconnectAttempts /\ t.delay = DefaultDelays[t.attempt]
    /\ lastReconnecting.attempt # 0 =>
          /\ lastReconnecting.attempt \in 1..reconnectAttempts
          /\ lastReconnecting.delay = DefaultDelays[lastReconnecting.attempt]
    /\ currentAttempt \in {0, lastReconnecting.attempt}

\* C3 witness: the last reconnection (number reconnectAttempts) is pending.
C3_LastAttemptScheduled ==
    /\ currentAttempt = reconnectAttempts
    /\ lastReconnecting = [attempt |-> 5, delay |-> 16000]
    /\ BagIn([attempt |-> 5, delay |-> 16000], timers)

\* C4: while connected the attempt counter is 0, and a reconnection scheduled
\* by the close that ends a connected period is attempt 1 with the base delay.
C4_OpenResetsAttempts ==
    /\ [](isConnected => currentAttempt = 0)
    /\ [][(isConnected /\ BagCardinality(timers') > BagCardinality(timers)) =>
            /\ lastReconnecting' = [attempt |-> 1, delay |-> reconnectDelay]
            /\ currentAttempt' = 1]_vars

\* C4 witness: a socket opened after at least two reconnections were scheduled.
C4_OpenAfterRetries ==
    isConnected /\ lastReconnecting.attempt >= 2 /\ currentAttempt = 0

\* C5: at most one connecting-or-open socket exists per client at any time
\* (a connect() while Connecting or Connected creates no further socket).
C5_ConnectIdempotent == Cardinality(LiveSockets) <= 1

\* C6: a send that returns success put exactly one frame on the open current
\* socket, and a send that fails transmits nothing.
C6_SendContract == (lastSend.code = "success") <=> lastSend.wire

\* C7: a keep-alive tick of a connected client transmits a Ping, the
\* keep-alive runs while the client is connected, and an open current socket
\* has its keep-alive running.
C7_KeepAlive ==
    /\ lastSend.type = "ping" => lastSend.wire
    /\ isConnected => keepAliveTimer
    /\ (websocket # 0 /\ sock[websocket].rs = "OPEN") => keepAliveTimer

\* C8: a startRecording call made while an earlier startRecording call has
\* not yet completed, or while a recording is active, is refused: no two calls
\* are ever past the guard at once, and none is while the recorder records.
C8_StartStopGuarded ==
    /\ BagCardinality(calls) <= 1
    /\ isRecording => calls = EmptyBag

ActiveEncoders == {e \in EncIds : enc[e].st \in {"recording", "stopping"}}

\* C9: at most one MediaRecorder has been started and has not yet delivered
\* its stop event.
C9_OneActiveEncoder == Cardinality(ActiveEncoders) <= 1

\* C10: in batch mode every completed recording ends in one transmitted audio
\* message or one upload request: no batch dispatch ends with the audio
\* refused by send() or with the file refused by validation.
C10_BatchExactlyOneOutput == batchOutcome \notin {"dropped", "rejected"}

\* a stop event is delivered in this step
StopDelivered == \E e \in EncIds : enc[e].st = "stopping" /\ enc'[e].st # "stopping"

\* a batch conversion settles in this step with the blob read
BatchSettled ==
    /\ \E t \in BagToSet(tasks) : t.kind = "batch" /\ tasks' = tasks (-) SetToBag({t})
    /\ batchOutcome' # "failed"

\* C11: a batch recording that stops while connected goes to the WebSocket
\* alone and is transmitted as one Audio message tagged with the format of
\* the probed recording type; one that stops while not connected goes to the
\* uploader alone.
C11_BatchSinkByConnection ==
    [][/\ (StopDelivered /\ settings.recordingMode = "batch" /\ recordedChunks' # << >>)
          => IF isConnected
                THEN /\ batchOutcome' = "pending"
                     /\ BagCardinality(tasks') = BagCardinality(tasks) + 1
                ELSE /\ batchOutcome' \in {"uploaded", "rejected"}
                     /\ tasks' = tasks
       /\ BatchSettled
          => /\ Len(wire') = Len(wire) + 1
             /\ wire'[Len(wire')].kind = "batch"
             /\ wire'[Len(wire')].format = getFormatFromMimeType(mimeType)]_vars

\* the status endpoint reports `completed` in this step
StatusCompleted ==
    /\ up.phase = "status"
    /\ up'.phase = "done"
    /\ up'.events[Len(up'.events)].name = "transcription"

\* C12: a batch recording that stops while the client is not connected goes to
\* one uploadAndWaitForResult call, and whenever the status endpoint first
\* reports `completed`, on whichever poll attempt, the promise of that call
\* resolves to the completed result.
C12_UploadResolvesCompleted ==
    [][/\ (StopDelivered /\ settings.recordingMode = "batch"
           /\ recordedChunks' # << >> /\ ~acConnected)
          => up' = uploadFile(File(1, BlobType(mediaRecorder)), TRUE, 0)
       /\ StatusCompleted => up'.promise = "completed"]_vars

\* an `audioData` event with non-empty data is emitted in this step
ChunkCaptured == Len(recordedChunks') = Len(recordedChunks) + 1

\* the chunk it carries
NewChunk == recordedChunks'[Len(recordedChunks')]

\* the conversion of the streamed chunk t settles in this step
ChunkSettled(t) ==
    /\ t.kind = "chunk"
    /\ BagIn(t, tasks)
    /\ tasks' = tasks (-) SetToBag({t})

\* the client's socket is open and flagged connected
TransportConnected ==
    isConnected /\ websocket # 0 /\ sock[websocket].rs = "OPEN"

C14_DroppedChunkReported ==
    [][\A t \in BagToSet(tasks) :
          (ChunkSettled(t) /\ ~isConnected /\ emitted' # "SEND_AUDIO_FAILED")
             => /\ wire' = wire
                /\ ~BagIn(t, tasks')
                /\ emitted' = "sendFailed"]_vars

\* the chunks whose audio the message m holds
ChunksOf(m) == {m.blob[k] : k \in 1..Len(m.blob)}

\* C15: every captured chunk is dispatched at most once: no two transmitted
\* Audio messages hold the audio of the same chunk, whatever the sequence of
\* startRecording, stopRecording and updateSettings calls.
C15_ChunkDispatchedOnce ==
    \A i, j \in 1..Len(wire) :
       i # j => ChunksOf(wire[i]) \cap ChunksOf(wire[j]) = {}

\* C16: the Audio messages of one streaming recording are transmitted in the
\* order their chunks were captured, whatever the order in which the base64
\* conversions complete.
C16_CaptureOrder ==
    \A i, j \in 1..Len(wire) :
       (/\ i < j
        /\ wire[i].kind = "chunk" /\ wire[j].kind = "chunk"
        /\ wire[i].blob[1].rec = wire[j].blob[1].rec)
          => wire[i].blob[1].seq < wire[j].blob[1].seq

\* C17: the chunks a `recordingStopped` event carries (and the batch blob is
\* built from) are exactly the chunks of the recording whose encoder stopped:
\* all of them, in capture order, and none of another recording, also when
\* startRecording was called between stopRecording and the stop event.
C17_StoppedCarriesOwnChunks ==
    [][\A e \in EncIds :
          (enc[e].st = "stopping" /\ enc'[e].st # "stopping")
             => /\ Len(recordedChunks') = enc[e].seq + (IF ChunkCaptured THEN 1 ELSE 0)
                /\ \A k \in 1..Len(recordedChunks') :
                      recordedChunks'[k] = [rec |-> e, seq |-> k]]_vars

\* C18: an updateSettings call made while connected transmits at once, before
\* any further Audio message, a Config message with the new model and
\* language; and every transmitted Audio message carries the model and the
\* language of the latest Config message transmitted before it on the same
\* socket.
C18_AudioMatchesConfig ==
    [][/\ (settings' # settings /\ acConnected /\ TransportConnected)
          => /\ lastConfig' = [sock |-> websocket, model |-> settings'.model,
                                language |-> settings'.language]
             /\ wire' = wire
       /\ \A i \in 1..Len(wire') :
             /\ wire'[i].cfg.sock = wire'[i].sock
             /\ wire'[i].cfg.model = wire'[i].model
             /\ wire'[i].cfg.language = wire'[i].language]_vars

\* C18 witness: after the settings were changed on an open connection, an
\* Audio message went out with the new model and language, the ones of the
\* latest Config message
C18_AudioAfterUpdate ==
    /\ Len(wire) > 0
    /\ wire[Len(wire)].model = "small"
    /\ wire[Len(wire)].language = "en"
    /\ wire[Len(wire)].cfg = lastConfig
    /\ lastConfig.model = "small"

\* C19: after updateSettings(p) on the settings s, getSettings() returns s
\* overridden by the fields of p (the fields p lacks are those of s), the
\* value in the settings store reads back as that same value, and applying
\* the same p once more leaves the settings unchanged.
C19_MergeLaw ==
    [][applied' # << >>
         => LET s == applied'[1].before
                p == applied'[1].p
            IN /\ DOMAIN settings' = DOMAIN s \cup DOMAIN p
               /\ \A f \in DOMAIN settings' :
                     settings'[f] = IF f \in DOMAIN p THEN p[f] ELSE s[f]
               /\ stored' # << >>
               /\ parse(stored'[1]) = settings'
               /\ (applied # << >> /\ applied[1].p = p) => settings' = settings]_vars

\* C19 witness: a partial update of the model alone has just been applied to
\* settings that already had that model; the other fields are those of before
\* and the store holds the result
C19_ModelAloneTwice ==
    /\ applied # << >>
    /\ DOMAIN applied[1].p = {"model"}
    /\ applied[1].p.model = "small"
    /\ applied[1].before.model = "small"
    /\ applied[1].before.language = "en"
    /\ settings = [applied[1].before EXCEPT !.model = "small"]
    /\ stored = <<stringify(settings)>>

\* the file is missing, larger than the uploader's size ceiling, or of a type
\* outside its format allow-list
Inadmissible(file) ==
    \/ ~file.present
    \/ file.size > uploadSettings.maxFileSize
    \/ file.type \notin uploadSettings.supportedFormats

\* C20: uploadFile(file) with a missing file, a file larger than the size
\* ceiling or a file whose type is not in the allow-list fails with
\* FILE_VALIDATION_FAILED, issues no request and emits neither uploadStarted
\* nor uploadCompleted; with any other file it issues exactly one POST.
C20_ValidationGatesUpload ==
    up.phase # "idle"
       => IF Inadmissible(up.file)
             THEN /\ up.promise = "FILE_VALIDATION_FAILED"
                  /\ up.posts = 0 /\ up.attempts = 0
                  /\ \A i \in 1..Len(up.events) :
                        up.events[i].name \notin {"uploadStarted", "uploadCompleted"}
             ELSE up.posts = 1

\* C20 witness: a webm file one byte over the ceiling has been refused
C20_TooLargeRefused ==
    /\ up.phase = "done"
    /\ up.file.present
    /\ up.file.type = "audio/webm"
    /\ up.file.size = uploadSettings.maxFileSize + 1
    /\ up.promise = "FILE_VALIDATION_FAILED"
    /\ up.events = <<Event("error", "FILE_VALIDATION_FAILED", 0)>>

\* a status request is answered in this step
StatusStep == up.phase = "status" /\ up'.phase # "status"

\* the event emitted last by the uploader after this step
LastEvent == up'.events[Len(up'.events)]

\* the answer of this step is non-terminal: neither `completed` nor `failed`,
\* and not a request that failed
NonTerminalAnswer ==
    /\ StatusStep
    /\ LastEvent.name # "transcription"
    /\ LastEvent.code \notin {"TRANSCRIPTION_FAILED", "POLLING_FAILED"}

\* C21: pollForResult issues at most maxAttempts status requests; when the
\* maxAttempts-th answer is non-terminal too, the call fails with the error
\* TRANSCRIPTION_TIMEOUT (emitted, and the value its promise resolves to), and
\* once a call is over it issues no further status request.
C21_PollBounded ==
    [][/\ up'.attempts <= up'.maxAttempts
       /\ (NonTerminalAnswer /\ up.attempts = up.maxAttempts)
             => /\ up'.phase = "done"
                /\ LastEvent = Event("error", "TRANSCRIPTION_TIMEOUT", up.attempts)
                /\ up'.promise = "TRANSCRIPTION_TIMEOUT"
       /\ up.phase = "done" => up'.attempts \in {up.attempts, 0}]_vars

\* the number of the status request answered in this step: one more than the
\* `polling` events of the call so far
AnsweredAttempt ==
    Cardinality({i \in 1..Len(up.events) : up.events[i].name = "polling"}) + 1

\* C22 (as amended): a non-terminal answer to attempt k emits exactly one
\* event: `polling` carrying k when k < maxAttempts, and the error
\* TRANSCRIPTION_TIMEOUT, not `polling`, when k = maxAttempts.
C22_PollingBelowLastAttempt ==
    [][NonTerminalAnswer
         => up'.events = Append(up.events,
                IF AnsweredAttempt < up.maxAttempts
                   THEN Event("polling", "", AnsweredAttempt)
                   ELSE Event("error", "TRANSCRIPTION_TIMEOUT", AnsweredAttempt))]_vars

\* C22 witness: attempts 1 and 2 were answered non-terminally and each
\* emitted its `polling` event
C22_TwoPollingEvents ==
    /\ Len(up.events) >= 4
    /\ up.events[3] = Event("polling", "", 1)
    /\ up.events[4] = Event("polling", "", 2)

\* C22 (as stated): a non-terminal answer to attempt k emits one `polling`
\* event carrying k, for every k from 1 up to and including maxAttempts.
C22_PollingEveryAttempt ==
    [][NonTerminalAnswer
         => up'.events = Append(up.events, Event("polling", "", AnsweredAttempt))]_vars

\* the close event of a socket is delivered in this step
CloseEvent ==
    \E s \in SockIds : /\ sock[s].rs \in {"CONNECTING", "OPEN", "CLOSING"}
                       /\ sock'[s].rs \in {"CLOSED", "NONE"}

\* the client gives up in this step: an unintentional close finds the retry
\* budget used up
GivesUp ==
    /\ CloseEvent
    /\ ~shouldReconnect
    /\ \E i \in 1..Len(heard') : heard'[i].name = "disconnected" /\ heard'[i].num # 1000

\* C23: when the client stops retrying because reconnectAttempts is
\* exhausted, it emits, exactly once, an error event reporting the exhaustion,
\* distinct from `reconnecting` and `disconnected`.
C23_ExhaustionSurfaced ==
    [][GivesUp
         => Cardinality({i \in 1..Len(heard') :
                            /\ heard'[i].name \notin {"reconnecting", "disconnected"}
                            /\ heard'[i].code \notin {"WEBSOCKET_ERROR", "SERVER_ERROR",
                                                      "MESSAGE_PARSE_ERROR"}}) = 1]_vars

\* the name of the one event the frame m is to result in: by its type field
\* when it parses, `error` when it does not
TypedEventName(m) ==
    IF m \in {"transcription", "config", "pong"} THEN m
    ELSE IF m = "error" THEN "serverError"
    ELSE IF m = "unparsable" THEN "error"
    ELSE "unknownMessage"

\* C24: every inbound frame results in exactly one event, chosen by its type
\* field (transcription, config, pong under their own names, error as
\* `serverError`, anything else as `unknownMessage`; a frame that does not
\* parse as `error`), and handling it leaves the sockets, isConnected, the
\* attempt counter and the keep-alive timer as they were.
C24_InboundTypedEvents ==
    [][\A s \in SockIds, m \in InboundMessages :
          HeardMessage(s, m)
             => /\ Len(heard') = 1
                /\ heard'[1].name = TypedEventName(m)
                /\ UNCHANGED <<sock, websocket, isConnected, currentAttempt,
                               keepAliveTimer, timers>>]_vars

\* C25: the client leaves the Connected state only in a step that delivers the
\* close event of one of its sockets or that runs disconnect() / cleanup(); a
\* keep-alive tick, whatever became of the pings before it, changes neither the
\* connection state nor the sockets, and schedules no reconnection.
C25_LeavesConnectedOnlyByClose ==
    [][/\ (isConnected /\ ~isConnected') => (CloseEvent \/ disconnect \/ cleanup)
       /\ KeepAliveTick => UNCHANGED <<isConnected, websocket, sock, timers,
                                        currentAttempt, keepAliveTimer>>]_vars

\* a ping went out on the open socket, no pong was delivered, and the client
\* is still connected
C25_StillConnectedAfterPings ==
    /\ isConnected
    /\ keepAliveTimer
    /\ lastSend = [type |-> "ping", code |-> "success", wire |-> TRUE]
    /\ websocket # 0
    /\ sock[websocket].rs = "OPEN"

\* a startRecording call ends in failure: a suspended call ends, or the call
\* ran to its end in one go, and the encoder it leaves is not recording
StartFails ==
    /\ \/ BagCardinality(calls') < BagCardinality(calls)
       \/ mediaRecorder' # mediaRecorder /\ mediaRecorder' # 0
    /\ ~(mediaRecorder' # mediaRecorder /\ mediaRecorder' # 0
           /\ enc'[mediaRecorder'].st = "recording")

\* a stopRecording call fails: stop() throws on an encoder that is not recording
StopFails ==
    /\ StopRecording
    /\ enc[mediaRecorder].st # "recording"

\* a send call of the client fails
SendFails ==
    /\ \E type \in {"audio", "config", "ping"} :
          lastSend' = send(type, isConnected, websocket, sock)
    /\ UNCHANGED <<websocket, sock, isConnected>>
    /\ lastSend'.code # "success"

\* the states of the connection the client is meant to be in
ClientConnected == isConnected /\ websocket # 0 /\ sock[websocket].rs = "OPEN"

ClientDisconnected == ~isConnected

\* C26: a failed startRecording or stopRecording leaves the recorder Idle
\* (isRecording false, so that the next startRecording passes the guard), and
\* a failed send leaves the client either Connected or Disconnected.
C26_FailureLeavesRetryableState ==
    [][/\ (StartFails \/ StopFails) => ~isRecording'
       /\ SendFails => (ClientConnected \/ ClientDisconnected)']_vars

\* C27: between two cleanup() calls the capture stream is acquired at most
\* once, however many startRecording, stopRecording and
\* requestMicrophoneAccess calls are made, and at most one audio-level
\* sampling loop is running.
C27_DeviceAcquiredOnce == dev.acquired <= 1 /\ dev.loops <= 1

\* the recorder as cleanup() leaves it: nothing held, nothing sampled
Released ==
    /\ ~isRecording
    /\ mediaRecorder = 0
    /\ ~audioStream
    /\ recordedChunks = << >>
    /\ ~dev.analyser
    /\ ~dev.animationFrame

\* cleanup() stops the tracks of the stream held and leaves the recorder released
CleanupReleases ==
    RecorderCleanup => /\ Released'
                       /\ audioStream => dev'.streams = dev.streams - 1

\* once cleanup() returned, and until the caller's next call, no `audioLevel`
\* event is emitted and the recorder stays Idle
QuietOnceReleased ==
    (dev.released /\ dev'.released) => (dev'.level = dev.level /\ ~isRecording')

\* cleanup() on a released recorder changes nothing
CleanupIdempotent ==
    (RecorderCleanup /\ Released)
       => /\ UNCHANGED <<isRecording, mediaRecorder, audioStream, recordedChunks, enc>>
          /\ dev' = [dev EXCEPT !.released = TRUE, !.acquired = 0]

\* a startRecording call made on a released recorder asks for the microphone
StartReacquires ==
    (dev.released /\ ~dev'.released /\ dev'.asking = dev.asking /\ Released)
       => calls' = calls (+) SetToBag({Call("permission", TRUE)})

\* C28: cleanup() closes the device handle and stops level sampling: after it
\* returns no further `audioLevel` event is emitted and the recorder is Idle;
\* it is idempotent, and a later startRecording acquires the device again.
C28_CleanupReleasesDevice ==
    [][CleanupReleases /\ QuietOnceReleased /\ CleanupIdempotent
                       /\ StartReacquires]_vars

\* C29: emit(name, data) calls the listeners registered for that name when it
\* is called, in registration order and once per registration, and no
\* listener of another name; a listener that throws does not keep the later
\* ones from being called; a callback taken off a name is no longer among its
\* listeners, so later emits do not call it.
C29_EmitCallsRegistered ==
    [][/\ \A name \in EventNames :
             Emit(name) => em'.called = [i \in 1..Len(listeners(em.events, name)) |->
                                          [name |-> name,
                                           cb |-> listeners(em.events, name)[i]]]
       /\ \A name \in EventNames, cb \in Callbacks :
             Off(name, cb) => \A i \in 1..Len(listeners(em'.events, name)) :
                                  listeners(em'.events, name)[i] # cb]_vars

\* an emit called a listener that threw, then one registered twice, twice
C29_CalledPastThrow ==
    /\ Len(em.called) = 3
    /\ em.called[1].cb = "throws"
    /\ em.called[2].cb = "plain"
    /\ em.called[3].cb = "plain"

\* a connection attempt fails, or a connection closes without being asked
\* to, while the retry budget is not used up
RetriedFailure ==
    /\ CloseEvent
    /\ shouldReconnect
    /\ \E i \in 1..Len(heard') : heard'[i].name = "disconnected" /\ heard'[i].num # 1000

\* C30: while retries remain, a failed connection attempt or an unintentional
\* close is announced by a `reconnecting` event, and no `error` event is
\* emitted for it.
C30_FailureOnlyReconnecting ==
    [][RetriedFailure => /\ \E i \in 1..Len(heard') : heard'[i].name = "reconnecting"
                         /\ \A i \in 1..Len(heard') : heard'[i].name # "error"]_vars

\* the container a recording type names
Container(type) ==
    IF type \in {"audio/webm;codecs=opus", "audio/webm"} THEN "webm"
    ELSE IF type \in {"audio/ogg;codecs=opus", "audio/ogg"} THEN "ogg"
    ELSE IF type = "audio/wav" THEN "wav"
    ELSE "mp4"

\* C31: getSupportedMimeType returns the first entry of the preference list
\* the runtime supports, and 'audio/webm' when it supports none; the format
\* getFormatFromMimeType gives for that type is the name of its container,
\* one of webm, ogg, wav, mp4.
C31_FirstSupportedType ==
    /\ probe.type # "none"
          => IF \A i \in 1..Len(MimeTypes) : MimeTypes[i] \notin probe.supported
                THEN probe.type = "audio/webm"
                ELSE \E i \in 1..Len(MimeTypes) :
                        /\ probe.type = MimeTypes[i]
                        /\ MimeTypes[i] \in probe.supported
                        /\ \A j \in 1..(i - 1) : MimeTypes[j] \notin probe.supported
    /\ probe.format # "none"
          => /\ probe.format = Container(probe.type)
             /\ probe.format \in {"webm", "ogg", "wav", "mp4"}

\* a runtime without webm: the ogg type with its codec is chosen and tagged ogg
C31_OggChosen ==
    /\ probe.supported = {"audio/ogg;codecs=opus", "audio/wav"}
    /\ probe.type = "audio/ogg;codecs=opus"
    /\ probe.format = "ogg"

\* a batch recording with data stops while the client is not connected
FallbackTaken ==
    /\ StopDelivered
    /\ settings.recordingMode = "batch"
    /\ recordedChunks' # << >>
    /\ ~acConnected

\* C32: whichever type the recorder selected, the file handleBatchRecording
\* builds for the HTTP fallback passes FileUploader's validation, and the
\* upload request is issued.
C32_FallbackFileAccepted ==
    [][FallbackTaken => /\ up'.phase = "post"
                        /\ up'.posts = 1
                        /\ up'.events = <<Event("uploadStarted", "", 0)>>]_vars

\* the close event of a socket that is not the client's current one is delivered
StaleClose ==
    \E s \in SockIds : /\ s # websocket
                        /\ sock[s].rs \in {"CONNECTING", "OPEN", "CLOSING"}
                        /\ sock'[s].rs \in {"CLOSED", "NONE"}

\* C33: a close event for a socket that is no longer the current one leaves
\* the current connection as it is: with the current socket open, isConnected
\* stays true and the keep-alive timer stays active.
C33_StaleCloseIgnored ==
    [][(StaleClose /\ websocket # 0 /\ sock[websocket].rs = "OPEN"
                   /\ isConnected /\ keepAliveTimer)
          => (isConnected' /\ keepAliveTimer')]_vars

\* C34: whenever AudioClientV2.isConnected is true, WebSocketClient.isConnected
\* is true as well.
C34_ControllerFollowsTransport == acConnected => isConnected

\* the event ends a pollForResult call
Terminal(e) ==
    \/ e.name = "transcription"
    \/ e.name = "error" /\ e.code \in {"TRANSCRIPTION_FAILED", "TRANSCRIPTION_TIMEOUT",
                                         "POLLING_FAILED"}

TerminalEvents(u) == {i \in 1..Len(u.events) : Terminal(u.events[i])}

\* C35: a pollForResult call emits no terminal event while it polls and
\* exactly one, its last event, when it ends; after it the call makes no
\* status request and emits nothing; a status request that fails at the HTTP
\* level ends the call at once with POLLING_FAILED; and with every request
\* answered and every timer fired a polling call always ends.
C35_PollEndsOnce ==
    /\ [](/\ up.phase \in {"status", "timer"} => TerminalEvents(up) = {}
          /\ (up.phase = "done" /\ up.attempts > 0)
                => TerminalEvents(up) = {Len(up.events)})
    /\ [][/\ StatusResponds("httpError")
                => /\ up'.phase = "done"
                   /\ up'.attempts = up.attempts
                   /\ up'.events = Append(up.events,
                                          Event("error", "POLLING_FAILED", up.attempts))
          /\ (up.phase = "done" /\ up' # up)
                => (up'.attempts = 0 /\ Len(up'.events) = 1)]_vars
    /\ (up.phase \in {"status", "timer"}) ~> (up.phase = "done")

\* a call polled twice and ended on the second answer
C35_EndedOnSecondAnswer ==
    /\ up.phase = "done"
    /\ up.attempts = 2
    /\ up.events[Len(up.events)] = Event("error", "POLLING_FAILED", 2)
    /\ up.events[Len(up.events) - 1] = Event("polling", "", 1)

\* an uploadFile call is made in this step, with a file
UploadCalled ==
    /\ up.phase \in {"idle", "done"}
    /\ up'.phase \in {"post", "done"}
    /\ up'.attempts = 0
    /\ Len(up'.events) = 1
    /\ up'.file.present

\* C36: uploadFile enforces the configured ceiling, the one getMaxFileSize
\* returns: a file larger than it is refused with FILE_VALIDATION_FAILED, and
\* a file of an allowed format no larger than it is accepted.
C36_ConfiguredCeilingEnforced ==
    [][UploadCalled
          => /\ up'.file.size > getMaxFileSize
                => up'.promise = "FILE_VALIDATION_FAILED"
             /\ (up'.file.size <= getMaxFileSize /\ validateAudioFile(up'.file.type))
                => up'.phase = "post"]_vars

\* C37: a reconnection attempt opens its socket on the endpoint of the socket
\* it replaces, which is the endpoint given to the connect(endpoint) call.
C37_ReconnectKeepsEndpoint ==
    [][(~isConnected /\ \E t \in BagToSet(timers) : Reconnects(t))
          => endpoint'[websocket'] = endpoint[websocket]]_vars

\* C38: once the stop of a batch recording with a non-empty chunk has been
\* handled, either one audio message carrying all chunks was sent or an
\* error was emitted.
C38_StoppedRecordingProcessed ==
    (legacy.stopped /\ legacy.encoding = << >>)
        => \/ legacy.sent = <<legacy.recordedChunks>> /\ legacy.errors = 0
           \/ legacy.sent = << >> /\ legacy.errors = 1

\* C39: from disconnect() until the caller connects again, no synthesis
\* WebSocket is created.
C39_StaysDisconnected ==
    [][(tts.disconnected /\ tts'.disconnected)
          => \A s \in SockIds : tts.socks[s] = "NONE" => tts'.socks[s] = "NONE"]_vars

\* C40: between handler executions the keep-alive timer is active exactly
\* when isConnected is true.
C40_KeepAliveIffConnected == keepAliveTimer <=> isConnected

====
